---- MODULE Spec2Model ----
(***************************************************************************)
(* A model of the chroma sync job (.github/scripts/sync/main.py): the      *)
(* coordinator main(), its three worker pools (listing, metadata check,    *)
(* publish), the manifest builder and the manifest store.                  *)
(*                                                                         *)
(* Strings whose characters matter (collection names, prefixes, versions)  *)
(* are sequences of one-character strings; backend names are plain         *)
(* strings and are spelled out by DbChars where they are sorted.           *)
(***************************************************************************)
EXTENDS Integers, Sequences, FiniteSets, TLC

\* ------------------------------------------------------------------------
\* Bounds of the model
\* ------------------------------------------------------------------------
\* The longest page the remote returns for one list_collections call.
MaxPageLen == 1
\* The number of collection entries the remote lists in one run, all
\* backends together.
MaxListed == 2
\* The number of configured databases the model runs with: the first ones of
\* ALL_DATABASES.
NumDatabases == 2
\* The longest qualifying set the builder is run on when it is run on its own.
MaxVersions == 3
\* The longest collection name parse_collection_name is applied to when it
\* is applied on its own.
MaxNameLen == 4
\* The number of collections of a run that keeps both thread pools full.
PoolTasks == 51
\* The most requests a listing call makes when it is run on its own.
MaxRequests == 4
\* The longest identifier get_possible_restorations is applied to, the
\* named examples apart.
MaxIdLen == 4
\* The largest max_retries retry_with_exponential_backoff is given when it
\* is run on its own.
MaxRetryLimit == 4
\* The longest list of paths validate_changes is given.
MaxPaths == 3

\* ------------------------------------------------------------------------
\* Configuration of sync/main.py
\* ------------------------------------------------------------------------
ALL_DATABASES == <<"npm", "py_pi", "crates_io", "golang_proxy", "github_releases">>
DATABASES == SubSeq(ALL_DATABASES, 1, NumDatabases)
MAX_CONCURRENT_CHROMA_READS == 10
MAX_CONCURRENT_DASHBOARD_BACKEND_WRITES == 50
MAX_RETRIES_MARK_PUBLIC == 3
BASE_RETRY_DELAY == 1
PAGE_LIMIT == 1000

Backends == {DATABASES[i] : i \in 1..Len(DATABASES)}

REQUIRED_ENV == {"CHROMA_TENANT_UUID", "CHROMA_TEAM_ID", "CHROMA_API_KEY",
                 "CHROMA_API_URL", "CHROMA_BACKEND_URL"}

\* ------------------------------------------------------------------------
\* Strings
\* ------------------------------------------------------------------------
\* The characters of the model in code-point order.
Alphabet == <<"+", "-", ".", "0", "1", "2", "3", "4", "5", "6", "7", "8", "9",
              "_", "a", "b", "c", "d", "e", "f", "g", "h", "i", "j", "k", "l",
              "m", "n", "o", "p", "q", "r", "s", "t", "u", "v", "w", "x", "y",
              "z">>

Ord(c) == CHOOSE i \in 1..Len(Alphabet) : Alphabet[i] = c

Digits == <<"0", "1", "2", "3", "4", "5", "6", "7", "8", "9">>

IsDigit(c) == \E i \in 1..Len(Digits) : Digits[i] = c

DigitVal(c) == (CHOOSE i \in 1..Len(Digits) : Digits[i] = c) - 1

\* Python's str comparison: by code point, a proper prefix is smaller.
RECURSIVE StrLess(_, _)
StrLess(s, t) ==
    IF t = <<>> THEN FALSE
    ELSE IF s = <<>> THEN TRUE
    ELSE IF Head(s) # Head(t) THEN Ord(Head(s)) < Ord(Head(t))
    ELSE StrLess(Tail(s), Tail(t))

DbChars(db) ==
    CASE db = "npm" -> <<"n", "p", "m">>
      [] db = "py_pi" -> <<"p", "y", "_", "p", "i">>
      [] db = "crates_io" -> <<"c", "r", "a", "t", "e", "s", "_", "i", "o">>
      [] db = "golang_proxy" ->
            <<"g", "o", "l", "a", "n", "g", "_", "p", "r", "o", "x", "y">>
      [] db = "github_releases" ->
            <<"g", "i", "t", "h", "u", "b", "_", "r", "e", "l", "e", "a", "s",
              "e", "s">>

DbLess(a, b) == StrLess(DbChars(a), DbChars(b))

\* json.dump(..., sort_keys=True) over the package names of a registry:
\* the keys in ascending string order.
SortedKeys(S) ==
    [k \in 1..Cardinality(S) |->
        CHOOSE x \in S : Cardinality({y \in S : StrLess(y, x)}) = k - 1]

\* json.dump(..., sort_keys=True) over the registry names.
SortedDatabases(S) ==
    [k \in 1..Cardinality(S) |->
        CHOOSE x \in S : Cardinality({y \in S : DbLess(y, x)}) = k - 1]

\* ------------------------------------------------------------------------
\* packaging.version.parse on the strings a collection name can carry:
\* lower-case letters, digits and the separators "-", "_" and "." (an epoch
\* needs "!" and a local label needs "+", which no collection name has)
\* ------------------------------------------------------------------------
\* s.split("."): the parts between the dots of s.
SplitDots(s) ==
    LET dots == {i \in 1..Len(s) : s[i] = "."}
        cut == [k \in 0..(Cardinality(dots) + 1) |->
                   IF k = 0 THEN 0
                   ELSE IF k = Cardinality(dots) + 1 THEN Len(s) + 1
                   ELSE CHOOSE i \in dots :
                            Cardinality({j \in dots : j < i}) = k - 1]
    IN [k \in 1..(Cardinality(dots) + 1) |->
           SubSeq(s, cut[k - 1] + 1, cut[k] - 1)]

\* int(ds) for a string of digits.
Number(ds) ==
    LET value[k \in 0..Len(ds)] ==
            IF k = 0 THEN 0 ELSE 10 * value[k - 1] + DigitVal(ds[k])
    IN value[Len(ds)]

IsNumeral(s) == s # <<>> /\ \A i \in 1..Len(s) : IsDigit(s[i])

\* The positions of s, the one after its end included.  The scanners below
\* are functions of the position they start from.
Positions(s) == 1..(Len(s) + 1)

\* [0-9]* from position p: the position after the last digit.
DigitsEnd(s) ==
    [p \in Positions(s) |->
        CHOOSE e \in p..(Len(s) + 1) :
            /\ \A j \in p..(e - 1) : IsDigit(s[j])
            /\ e <= Len(s) => ~IsDigit(s[e])]

\* (?:\.[0-9]+)* from position p.
ReleaseEnd(s) ==
    LET end[p \in Positions(s)] ==
            IF p + 1 <= Len(s) /\ s[p] = "." /\ IsDigit(s[p + 1])
            THEN end[DigitsEnd(s)[p + 1]]
            ELSE p
    IN end

Separators == {"-", "_", "."}

\* [-_\.]? from position p.
SkipSeparator(s, p) == IF p <= Len(s) /\ s[p] \in Separators THEN p + 1 ELSE p

StartsAt(s, p, t) == p + Len(t) - 1 <= Len(s) /\ SubSeq(s, p, p + Len(t) - 1) = t

\* The spellings of each segment's label, longest first, with the rank of
\* the normalised letter: a < b < rc.
PreLabels ==
    << [text |-> <<"p", "r", "e", "v", "i", "e", "w">>, rank |-> 3],
       [text |-> <<"a", "l", "p", "h", "a">>, rank |-> 1],
       [text |-> <<"b", "e", "t", "a">>, rank |-> 2],
       [text |-> <<"p", "r", "e">>, rank |-> 3],
       [text |-> <<"r", "c">>, rank |-> 3],
       [text |-> <<"a">>, rank |-> 1],
       [text |-> <<"b">>, rank |-> 2],
       [text |-> <<"c">>, rank |-> 3] >>

PostLabels ==
    << [text |-> <<"p", "o", "s", "t">>, rank |-> 1],
       [text |-> <<"r", "e", "v">>, rank |-> 1],
       [text |-> <<"r">>, rank |-> 1] >>

DevLabels == << [text |-> <<"d", "e", "v">>, rank |-> 1] >>

NoSegment(p) == [present |-> FALSE, rank |-> 0, n |-> 0, end |-> p]

\* [-_\.]?(label)[-_\.]?([0-9]+)? from position p; the number is 0 when
\* it is missing.
Segment(s, labels) ==
    [p \in Positions(s) |->
        LET q == SkipSeparator(s, p)
            hits == {k \in 1..Len(labels) : StartsAt(s, q, labels[k].text)}
        IN IF hits = {} THEN NoSegment(p)
           ELSE LET k == CHOOSE h \in hits : \A g \in hits : h <= g
                    r == SkipSeparator(s, q + Len(labels[k].text))
                    e == DigitsEnd(s)[r]
                IN [present |-> TRUE, rank |-> labels[k].rank,
                    n |-> Number(SubSeq(s, r, e - 1)), end |-> e]]

\* The post-release segment also has the form -N.
PostSegment(s) ==
    [p \in Positions(s) |->
        IF p + 1 <= Len(s) /\ s[p] = "-" /\ IsDigit(s[p + 1])
        THEN [present |-> TRUE, rank |-> 1,
              n |-> Number(SubSeq(s, p + 1, DigitsEnd(s)[p + 1] - 1)),
              end |-> DigitsEnd(s)[p + 1]]
        ELSE Segment(s, PostLabels)[p]]

\* The match of VERSION_PATTERN: v? release pre? post? dev?
ParseVersion(v) ==
    LET start == IF StartsAt(v, 1, <<"v">>) THEN 2 ELSE 1
        valid == start <= Len(v) /\ IsDigit(v[start])
        relEnd == IF valid THEN ReleaseEnd(v)[DigitsEnd(v)[start]] ELSE start
        pre == Segment(v, PreLabels)[relEnd]
        post == PostSegment(v)[pre.end]
        dev == Segment(v, DevLabels)[post.end]
    IN [valid |-> valid /\ dev.end = Len(v) + 1,
        release |-> SubSeq(v, start, relEnd - 1),
        pre |-> pre, post |-> post, dev |-> dev]

\* version.parse(v) raises InvalidVersion unless the whole of v matches.
VersionParses(v) == ParseVersion(v).valid

\* The release without its trailing zeros.
StripTrailingZeros(r) ==
    SubSeq(r, 1, CHOOSE k \in 0..Len(r) :
                     /\ k > 0 => r[k] # 0
                     /\ \A j \in (k + 1)..Len(r) : r[j] = 0)

\* The comparison key of a match (_cmpkey): the release numbers without
\* trailing zeros ("1.0" and "1.0.0" have the same key), then the
\* pre-release, post-release and development segments.  A missing
\* pre-release sorts after every pre-release, unless the version is a bare
\* development release, which sorts before them; a missing post-release
\* sorts first and a missing development segment last.
CmpKey(m) ==
    LET parts == SplitDots(m.release)
        pre == IF m.pre.present THEN <<m.pre.rank, m.pre.n>>
               ELSE IF ~m.post.present /\ m.dev.present THEN <<0, 0>>
               ELSE <<4, 0>>
        post == IF m.post.present THEN <<1, m.post.n>> ELSE <<0, 0>>
        dev == IF m.dev.present THEN <<0, m.dev.n>> ELSE <<1, 0>>
    IN [release |-> StripTrailingZeros([i \in 1..Len(parts) |-> Number(parts[i])]),
        rest |-> pre \o post \o dev]

\* The comparison key of version.parse(v).
VersionKey(v) == CHOOSE key \in {CmpKey(m) : m \in {ParseVersion(v)}} : TRUE

\* Python's tuple comparison.
RECURSIVE TupleLess(_, _)
TupleLess(a, b) ==
    IF b = <<>> THEN FALSE
    ELSE IF a = <<>> THEN TRUE
    ELSE IF Head(a) # Head(b) THEN Head(a) < Head(b)
    ELSE TupleLess(Tail(a), Tail(b))

VersionLess(v, w) ==
    \E a \in {VersionKey(v)}, b \in {VersionKey(w)} :
        IF a.release # b.release THEN TupleLess(a.release, b.release)
        ELSE TupleLess(a.rest, b.rest)

\* ------------------------------------------------------------------------
\* parse_collection_name
\* ------------------------------------------------------------------------
\* A variant that splits at the first underscore.
parse_collection_name_at_first(name) ==
    IF \E i \in 1..Len(name) : name[i] = "_"
    THEN LET u == CHOOSE i \in 1..Len(name) :
                      name[i] = "_" /\ \A j \in 1..(i - 1) : name[j] # "_"
         IN [match |-> TRUE,
             prefix |-> SubSeq(name, 1, u - 1),
             version_str |-> SubSeq(name, u + 1, Len(name))]
    ELSE [match |-> FALSE, prefix |-> <<>>, version_str |-> <<>>]

\* re.compile(r"^(.*)_([^_]*)$"): the split is at the last underscore.
parse_collection_name(name) ==
    IF \E i \in 1..Len(name) : name[i] = "_"
    THEN LET u == CHOOSE i \in 1..Len(name) :
                      name[i] = "_" /\ \A j \in (i + 1)..Len(name) : name[j] # "_"
         IN [match |-> TRUE,
             prefix |-> SubSeq(name, 1, u - 1),
             version_str |-> SubSeq(name, u + 1, Len(name))]
    ELSE [match |-> FALSE, prefix |-> <<>>, version_str |-> <<>>]

\* A variant that groups every name, parsed or not.
Usable_Always(name) == TRUE

\* "if prefix and version_str": both are present and non-empty.
Usable(name) ==
    LET p == parse_collection_name(name)
    IN p.match /\ p.prefix # <<>> /\ p.version_str # <<>>

\* ------------------------------------------------------------------------
\* build_versions_data_from_collections
\* ------------------------------------------------------------------------
\* A variant that always compares the strings.
KeyLess_Lexical(v, w, parsed) == StrLess(v, w)

\* The order of the sort key: version.parse(v) when every member of the
\* list parses (line 219), the string itself in the fallback (line 227).
KeyLess(v, w, parsed) == IF parsed THEN VersionLess(v, w) ELSE StrLess(v, w)

\* sorted(seq, key=..., reverse=True): descending and stable, elements
\* whose keys compare equal keep their order in seq.
SortedReverse(seq, parsed) ==
    LET n == Len(seq)
        Pos(i) == Cardinality({j \in 1..n : KeyLess(seq[i], seq[j], parsed)})
                  + Cardinality({j \in 1..(i - 1) :
                        /\ ~KeyLess(seq[i], seq[j], parsed)
                        /\ ~KeyLess(seq[j], seq[i], parsed)})
                  + 1
    IN [k \in 1..n |-> seq[CHOOSE i \in 1..n : Pos(i) = k]]

\* sorted(version_strings, key=version.parse, reverse=True), and the lexical
\* fallback for the whole list when a member does not parse: the list is
\* sorted by one key or by the other.
SortVersions(version_strings) ==
    CHOOSE sorted \in
        {SortedReverse(seq, parsed) :
            seq \in {version_strings},
            parsed \in {\A i \in 1..Len(version_strings) :
                            VersionParses(version_strings[i])}} : TRUE

\* grouped_by_prefix: the version strings of a prefix in arrival order.
RECURSIVE VersionsOfPrefix(_, _)
VersionsOfPrefix(collections, prefix) ==
    IF collections = <<>> THEN <<>>
    ELSE LET p == parse_collection_name(Head(collections))
             rest == VersionsOfPrefix(Tail(collections), prefix)
         IN IF Usable(Head(collections)) /\ p.prefix = prefix
            THEN <<p.version_str>> \o rest
            ELSE rest

GroupedPrefixes(collections) ==
    {parse_collection_name(collections[i]).prefix :
        i \in {j \in 1..Len(collections) : Usable(collections[j])}}

BuildDatabase(collections) ==
    [prefix \in GroupedPrefixes(collections) |->
        SortVersions(VersionsOfPrefix(collections, prefix))]

\* A variant that gives a database a key only when it has collections.
build_versions_data_skipping_empty(afc) ==
    [versions |->
        [database \in {d \in DOMAIN afc : afc[d] # <<>>} |->
            BuildDatabase(afc[database])]]

build_versions_data_from_collections(afc) ==
    [versions |-> [database \in DOMAIN afc |-> BuildDatabase(afc[database])]]

\* Lines 206-209: the builder logs a warning for every name it cannot use.
BuildWarnings(afc) ==
    IF \E database \in DOMAIN afc :
          \E k \in 1..Len(afc[database]) : ~Usable(afc[database][k])
    THEN {"logger.warning"}
    ELSE {}

\* ------------------------------------------------------------------------
\* save_versions_json: json.dump(versions_data, f, indent=2, sort_keys=True)
\* ------------------------------------------------------------------------
\* The text of one registry object: its keys in sorted order.
DumpDatabase(packages) ==
    LET keys == SortedKeys(DOMAIN packages)
    IN [k \in 1..Len(keys) |-> <<keys[k], packages[keys[k]]>>]

\* The text of the whole document: its keys in sorted order.
JsonDump(versions_data) ==
    LET keys == SortedDatabases(DOMAIN versions_data.versions)
    IN <<"versions",
         [k \in 1..Len(keys) |->
             <<keys[k], DumpDatabase(versions_data.versions[keys[k]])>>]>>

\* ------------------------------------------------------------------------
\* The remote service and the environment, as far as the run can see them
\* ------------------------------------------------------------------------
None == "None"

\* A variant that tests for None only.
Truthy_IsNotNone(x) == x # None

\* "if error:" and "if not <env var>:": None and "" are both false.
Truthy(x) == x # None /\ x # ""

\* str(e) of an exception a remote call raises; an exception may carry no
\* message at all (str(TimeoutError()) == "").
ExcMessages == {"connection reset", ""}

Name_a_1_0 == <<"a", "_", "1", ".", "0">>
Name_a_1_0_0 == <<"a", "_", "1", ".", "0", ".", "0">>
Name_b == <<"b">>

\* The collection names the remote may list.
RunNames == {Name_a_1_0, Name_a_1_0_0, Name_b}

\* collection.metadata as the remote returns it: None, or a dict given as a
\* function from its keys to its values (a value is written type:literal).
MdNone == [isNone |-> TRUE, dict |-> <<>>]
MdFinished == [isNone |-> FALSE, dict |-> [finished_ingest |-> "bool:True"]]

MdEmpty == [isNone |-> FALSE, dict |-> <<>>]
MdNoFlag == [isNone |-> FALSE, dict |-> [source |-> "str:npm"]]
MdFlagFalse == [isNone |-> FALSE, dict |-> [finished_ingest |-> "bool:False"]]
MdFlagOne == [isNone |-> FALSE, dict |-> [finished_ingest |-> "int:1"]]
MdFlagString == [isNone |-> FALSE, dict |-> [finished_ingest |-> "str:true"]]

RunMetadata ==
    {MdNone, MdEmpty, MdNoFlag, MdFlagFalse, MdFlagOne, MdFlagString, MdFinished}

\* What requests.post does: a response with a status code, or an exception.
HttpResponse(code) == [kind |-> "http", status_code |-> code]
PostRaises == [kind |-> "exception", status_code |-> 0]

RunResponses == {HttpResponse(200), HttpResponse(409), HttpResponse(500), PostRaises}

\* The non-empty pages the remote may return: up to n names, no name twice
\* within a page.
PagesUpTo(n) ==
    {p \in UNION {[1..k -> RunNames] : k \in 1..n} :
        \A i, j \in 1..Len(p) : p[i] = p[j] => i = j}

\* versions.json as a file: a complete document, or what an interrupted
\* write leaves behind.
FileOf(versions_data) == [kind |-> "document", text |-> JsonDump(versions_data)]
EmptyFile == [kind |-> "empty", text |-> <<>>]
PartialFile == [kind |-> "partial", text |-> <<>>]

\* The packages an earlier run committed for npm.
PrevNpmPackages == [p \in {<<"o", "l", "d">>} |-> <<<<"0", ".", "1">>>>]

\* versions.json as an earlier run committed it: every registry, and the
\* package "old" with version "0.1" under npm.
PrevFile ==
    [kind |-> "document",
     text |-> <<"versions",
                <<<<"crates_io", <<>>>>,
                  <<"github_releases", <<>>>>,
                  <<"golang_proxy", <<>>>>,
                  <<"npm", <<<<<<"o", "l", "d">>, <<<<"0", ".", "1">>>>>>>>>>,
                  <<"py_pi", <<>>>>>>>>]

VARIABLES
    pc,                        \* where main() is
    exitCode,                  \* the argument of sys.exit, -1 while running
    env,                       \* os.getenv per required variable
    clients,                   \* the databases initialize_clients has a client for
    calls,                     \* what has been called or raised so far, by name
    listTask,                  \* one list_collections_for_database future per database
    db_to_collections,
    list_errors,
    metaTask,                  \* one get_collection_metadata future per metadata_tasks entry
    all_finished_collections,
    metadata_errors,
    versions_data,
    pubTask,                   \* one mark_collection_public future per collections_to_mark entry
    public_marking_errors,
    disk,                      \* the content of versions.json
    retrier,                   \* the frame of a mark_collection_public call on its own
    responses,                 \* what the remote answered to a call on its own
    applied                    \* a function called on its own: argument and result, or its frame

vars == <<pc, exitCode, env, clients, calls, listTask, db_to_collections,
          list_errors, metaTask, all_finished_collections, metadata_errors,
          versions_data, pubTask, public_marking_errors, disk, retrier,
          responses, applied>>

\* ------------------------------------------------------------------------
\* ThreadPoolExecutor
\* ------------------------------------------------------------------------
NumWith(tasks, st) == Cardinality({i \in DOMAIN tasks : tasks[i].status = st})

\* A variant that never starts a submitted task.
Schedule_NoStart(tasks, max_workers) == tasks

\* A variant that starts a thread for every submitted task.
Schedule_Unbounded(tasks, max_workers) ==
    [i \in DOMAIN tasks |->
        IF tasks[i].status = "queued"
        THEN [tasks[i] EXCEPT !.status = "running"]
        ELSE tasks[i]]

\* The pool runs at most max_workers tasks; the other submitted tasks wait
\* in submission order until a worker is free.
Schedule(tasks, max_workers) ==
    [i \in DOMAIN tasks |->
        IF tasks[i].status = "queued"
           /\ NumWith(tasks, "running")
              + Cardinality({j \in 1..(i - 1) : tasks[j].status = "queued"})
              < max_workers
        THEN [tasks[i] EXCEPT !.status = "running"]
        ELSE tasks[i]]

\* A variant that leaves the loop as soon as one future has been handled.
AllHandled_FirstOnly(tasks) == \E i \in DOMAIN tasks : tasks[i].status = "handled"

\* as_completed has yielded every future: the loop over it is over, and the
\* with block has nothing left to wait for.
AllHandled(tasks) == \A i \in DOMAIN tasks : tasks[i].status = "handled"

Exit(code) == pc' = "exited" /\ exitCode' = code

\* ------------------------------------------------------------------------
\* main(): configuration and clients
\* ------------------------------------------------------------------------
\* Lines 245-278: every required variable must be set and non-empty.
CheckEnvironment ==
    /\ pc = "start"
    /\ IF \E v \in REQUIRED_ENV : ~Truthy(env[v])
       THEN Exit(1)
       ELSE pc' = "clients" /\ UNCHANGED exitCode
    /\ UNCHANGED <<env, clients, calls, listTask, db_to_collections,
                   list_errors, metaTask, all_finished_collections,
                   metadata_errors, versions_data, pubTask,
                   public_marking_errors, disk, retrier, responses, applied>>


\* A variant that goes on with the clients it has, unless it has none.
InitializeClients_AnyClient ==
    /\ pc = "clients"
    /\ \E ok \in SUBSET Backends :
        /\ clients' = ok
        /\ IF ok = {}
           THEN Exit(1)
           ELSE pc' = "counting" /\ UNCHANGED exitCode
    /\ calls' = calls \cup {"CloudClient"}
    /\ UNCHANGED <<env, listTask, db_to_collections, list_errors, metaTask,
                   all_finished_collections, metadata_errors, versions_data,
                   pubTask, public_marking_errors, disk, retrier, responses,
                   applied>>

\* initialize_clients and the check of its result: a database whose
\* CloudClient raises is left out of clients.
InitializeClients ==
    /\ pc = "clients"
    /\ \E ok \in SUBSET Backends :
        /\ clients' = ok
        /\ IF Cardinality(ok) # Len(DATABASES)
           THEN Exit(1)
           ELSE pc' = "counting" /\ UNCHANGED exitCode
    /\ calls' = calls \cup {"CloudClient"}
    /\ UNCHANGED <<env, listTask, db_to_collections, list_errors, metaTask,
                   all_finished_collections, metadata_errors, versions_data,
                   pubTask, public_marking_errors, disk, retrier, responses,
                   applied>>

\* get_collection_counts: the counts are only logged, a failing count is 0.
GetCollectionCounts ==
    /\ pc = "counting"
    /\ pc' = "submit_listing"
    /\ calls' = calls \cup {"count_collections"}
    /\ UNCHANGED <<exitCode, env, clients, listTask, db_to_collections,
                   list_errors, metaTask, all_finished_collections,
                   metadata_errors, versions_data, pubTask,
                   public_marking_errors, disk, retrier, responses, applied>>

\* ------------------------------------------------------------------------
\* main(): listing
\* ------------------------------------------------------------------------
\* A future of the listing pool: its result is (database, names, error).
ListingFuture(db) ==
    [database |-> db, status |-> "queued", names |-> <<>>, error |-> None]

\* clients.items(): initialize_clients fills the dict in the order of
\* DATABASES, leaving out the databases whose client failed.
HasClient(db) == db \in clients

ClientItems == SelectSeq(DATABASES, HasClient)

\* Lines 306-313: one future per client.
SubmitListing ==
    /\ pc = "submit_listing"
    /\ listTask' = Schedule([i \in 1..Len(ClientItems) |-> ListingFuture(ClientItems[i])],
                            MAX_CONCURRENT_CHROMA_READS)
    /\ pc' = "listing"
    /\ UNCHANGED <<exitCode, env, clients, calls, db_to_collections,
                   list_errors, metaTask, all_finished_collections,
                   metadata_errors, versions_data, pubTask,
                   public_marking_errors, disk, retrier, responses, applied>>

\* The locals of list_collections_for_database at line 72, and the offsets
\* it has requested.
ListingFrame ==
    [returned |-> FALSE, names |-> <<>>, offset |-> 0, requested |-> <<>>,
     error |-> None]

\* Lines 75-79 for a page that is not empty.
ListExtend(f, page) ==
    [f EXCEPT !.names = f.names \o page,
              !.offset = f.offset + PAGE_LIMIT,
              !.requested = Append(f.requested, f.offset)]

\* Lines 75-81 for the empty page.
ListReturn(f) ==
    [f EXCEPT !.returned = TRUE,
              !.requested = Append(f.requested, f.offset)]

\* A variant that returns the names fetched before the exception.
ListExcept_KeepingNames(f, msg) ==
    [f EXCEPT !.returned = TRUE, !.error = msg,
              !.requested = Append(f.requested, f.offset)]

\* Lines 82-83: list_collections raises.
ListExcept(f, msg) ==
    [f EXCEPT !.returned = TRUE, !.names = <<>>, !.error = msg,
              !.requested = Append(f.requested, f.offset)]

\* One iteration of the while loop: the remote answers with a page (the
\* empty page included) or list_collections raises with a message.
ListStep(f, answer) ==
    IF answer.raises THEN ListExcept(f, answer.msg)
    ELSE IF answer.page = <<>> THEN ListReturn(f)
    ELSE ListExtend(f, answer.page)

\* list_collections_for_database against the answers of the remote, in the
\* order of the requests.
RECURSIVE ListLoop(_, _)
ListLoop(f, answers) ==
    IF f.returned \/ answers = <<>> THEN f
    ELSE ListLoop(ListStep(f, Head(answers)), Tail(answers))

list_collections_for_database(answers) == ListLoop(ListingFrame, answers)

PageAnswer(page) == [raises |-> FALSE, page |-> page, msg |-> ""]
RaiseAnswer(msg) == [raises |-> TRUE, page |-> <<>>, msg |-> msg]

\* What the remote may answer to the requests of one call: pages with at
\* most n names together, then the empty page or an exception.
RECURSIVE RemoteAnswers(_)
RemoteAnswers(n) ==
    {<<PageAnswer(<<>>)>>}
    \cup {<<RaiseAnswer(msg)>> : msg \in ExcMessages}
    \cup UNION {{<<PageAnswer(p)>> \o rest : rest \in RemoteAnswers(n - Len(p))} :
                   p \in PagesUpTo(IF n < MaxPageLen THEN n ELSE MaxPageLen)}

\* The names the finished listing calls have returned so far.
Listed == LET RECURSIVE Sum(_)
              Sum(i) == IF i = 0 THEN 0 ELSE Len(listTask[i].names) + Sum(i - 1)
          IN Sum(Len(listTask))

\* The (names, error) pairs the call can return when the remote holds at
\* most n names.
ListingResults(n) ==
    {<<list_collections_for_database(answers).names,
       list_collections_for_database(answers).error>> :
        answers \in RemoteAnswers(n)}

\* The results for every number of names the remote may still hold.
ListingResultsUpTo == [n \in 0..MaxListed |-> ListingResults(n)]

\* list_collections_for_database in a worker thread; a worker that returns
\* takes the next queued task.
ListCollections(i) ==
    /\ pc = "listing"
    /\ listTask[i].status = "running"
    /\ \E result \in ListingResultsUpTo[MaxListed - Listed] :
           listTask' =
               Schedule([listTask EXCEPT ![i].status = "done",
                                         ![i].names = result[1],
                                         ![i].error = result[2]],
                        MAX_CONCURRENT_CHROMA_READS)
    /\ calls' = calls \cup {"list_collections"}
    /\ UNCHANGED <<pc, exitCode, env, clients, db_to_collections, list_errors,
                   metaTask, all_finished_collections, metadata_errors,
                   versions_data, pubTask, public_marking_errors, disk,
                   retrier, responses, applied>>

\* Lines 320-325, "if error:".
ListingFailed(error) == Truthy(error)

\* The body of the as_completed loop for one listing future (lines 315-328).
HandleListing(i) ==
    /\ pc = "listing"
    /\ listTask[i].status = "done"
    /\ listTask' = [listTask EXCEPT ![i].status = "handled"]
    /\ LET t == listTask[i]
       IN IF ListingFailed(t.error)
          THEN /\ list_errors' = Append(list_errors, <<t.database, t.error>>)
               /\ UNCHANGED db_to_collections
          ELSE /\ db_to_collections' =
                     [d \in DOMAIN db_to_collections \cup {t.database} |->
                         IF d = t.database THEN t.names ELSE db_to_collections[d]]
               /\ UNCHANGED list_errors
    /\ UNCHANGED <<pc, exitCode, env, clients, calls, metaTask,
                   all_finished_collections, metadata_errors, versions_data,
                   pubTask, public_marking_errors, disk, retrier, responses,
                   applied>>

\* A future of the metadata pool: its result is (database, name,
\* collection, error), the collection given by its name, absent as <<>>.
MetadataFuture(db, name) ==
    [database |-> db, name |-> name, status |-> "queued",
     collection |-> <<>>, error |-> None]

\* metadata_tasks (lines 341-345), one entry per listed name.
RECURSIVE MetadataTasks(_, _)
MetadataTasks(dtc, i) ==
    IF i > Len(DATABASES) THEN <<>>
    ELSE LET db == DATABASES[i]
             names == IF db \in DOMAIN dtc THEN dtc[db] ELSE <<>>
         IN [k \in 1..Len(names) |-> MetadataFuture(db, names[k])]
            \o MetadataTasks(dtc, i + 1)

\* Lines 330-334, "if list_errors:".
ListingAborts(errors) == errors # <<>>

\* The end of the listing phase (lines 330-364): exit on a listing error,
\* else submit one metadata check per listed name.
FinishListing ==
    /\ pc = "listing"
    /\ AllHandled(listTask)
    /\ IF ListingAborts(list_errors)
       THEN /\ Exit(1)
            /\ UNCHANGED <<metaTask, all_finished_collections>>
       ELSE /\ pc' = "filtering"
            /\ metaTask' = Schedule(MetadataTasks(db_to_collections, 1),
                                    MAX_CONCURRENT_CHROMA_READS)
            /\ all_finished_collections' = [db \in Backends |-> <<>>]
            /\ UNCHANGED exitCode
    /\ UNCHANGED <<env, clients, calls, listTask, db_to_collections,
                   list_errors, metadata_errors, versions_data, pubTask,
                   public_marking_errors, disk, retrier, responses, applied>>

\* ------------------------------------------------------------------------
\* main(): metadata checks
\* ------------------------------------------------------------------------
\* A variant that takes every truthy value of the flag for finished.
FinishedIngest_Truthy(md) ==
    /\ ~md.isNone
    /\ DOMAIN md.dict # {}
    /\ "finished_ingest" \in DOMAIN md.dict
    /\ md.dict["finished_ingest"] \in {"bool:True", "int:1", "str:true"}

\* Lines 91-94: the metadata is there, not empty, and finished_ingest is True.
FinishedIngest(md) ==
    /\ ~md.isNone
    /\ DOMAIN md.dict # {}
    /\ "finished_ingest" \in DOMAIN md.dict
    /\ md.dict["finished_ingest"] = "bool:True"

\* get_collection_metadata when get_collection returns.
MetadataReturn(t, md) ==
    [t EXCEPT !.status = "done",
              !.collection = IF FinishedIngest(md) THEN <<t.name>> ELSE <<>>]

\* get_collection_metadata when get_collection raises.
MetadataExcept(t, msg) ==
    [t EXCEPT !.status = "done", !.error = msg]

\* A variant in which the worker thread appends the finished collection to
\* the shared list itself.
CheckMetadata_Appending(i) ==
    /\ pc = "filtering"
    /\ metaTask[i].status = "running"
    /\ \E md \in RunMetadata :
        /\ metaTask' = Schedule([metaTask EXCEPT ![i] = MetadataReturn(@, md)],
                                MAX_CONCURRENT_CHROMA_READS)
        /\ all_finished_collections' =
               IF FinishedIngest(md)
               THEN [all_finished_collections EXCEPT
                        ![metaTask[i].database] = Append(@, metaTask[i].name)]
               ELSE all_finished_collections
    /\ calls' = calls \cup {"get_collection"}
    /\ UNCHANGED <<pc, exitCode, env, clients, listTask, db_to_collections,
                   list_errors, metadata_errors, versions_data, pubTask,
                   public_marking_errors, disk, retrier, responses, applied>>

\* get_collection_metadata in a worker thread.
CheckMetadata(i) ==
    /\ pc = "filtering"
    /\ metaTask[i].status = "running"
    /\ \/ \E md \in RunMetadata :
            metaTask' = Schedule([metaTask EXCEPT ![i] = MetadataReturn(@, md)],
                                 MAX_CONCURRENT_CHROMA_READS)
       \/ \E msg \in ExcMessages :
            metaTask' = Schedule([metaTask EXCEPT ![i] = MetadataExcept(@, msg)],
                                 MAX_CONCURRENT_CHROMA_READS)
    /\ calls' = calls \cup {"get_collection"}
    /\ UNCHANGED <<pc, exitCode, env, clients, listTask, db_to_collections,
                   list_errors, all_finished_collections, metadata_errors,
                   versions_data, pubTask, public_marking_errors, disk,
                   retrier, responses, applied>>

\* Line 376, "if error:".
MetadataFailed(error) == Truthy(error)

\* The body of the as_completed loop for one metadata future (lines 366-381).
HandleMetadata(i) ==
    /\ pc = "filtering"
    /\ metaTask[i].status = "done"
    /\ metaTask' = [metaTask EXCEPT ![i].status = "handled"]
    /\ LET t == metaTask[i]
       IN IF MetadataFailed(t.error)
          THEN /\ metadata_errors' =
                     Append(metadata_errors, <<t.database, t.name, t.error>>)
               /\ UNCHANGED all_finished_collections
          ELSE IF t.collection # <<>>
          THEN /\ all_finished_collections' =
                     [all_finished_collections EXCEPT
                         ![t.database] = Append(@, t.collection[1])]
               /\ UNCHANGED metadata_errors
          ELSE UNCHANGED <<all_finished_collections, metadata_errors>>
    /\ UNCHANGED <<pc, exitCode, env, clients, calls, listTask,
                   db_to_collections, list_errors, versions_data, pubTask,
                   public_marking_errors, disk, retrier, responses, applied>>

\* ------------------------------------------------------------------------
\* main(): building
\* ------------------------------------------------------------------------
\* Lines 383-406: the metadata errors are only logged, then the manifest is
\* built from the qualifying set.
BuildVersionsData ==
    /\ pc = "filtering"
    /\ AllHandled(metaTask)
    /\ versions_data' = build_versions_data_from_collections(all_finished_collections)
    /\ calls' = calls \cup {"build"} \cup BuildWarnings(all_finished_collections)
    /\ pc' = "submit_publish"
    /\ UNCHANGED <<exitCode, env, clients, listTask, db_to_collections,
                   list_errors, metaTask, all_finished_collections,
                   metadata_errors, pubTask, public_marking_errors, disk,
                   retrier, responses, applied>>

\* ------------------------------------------------------------------------
\* main(): publishing
\* ------------------------------------------------------------------------
\* A future of the publish pool: its result is (success, error).
PublishFuture(db, name) ==
    [database |-> db, name |-> name, status |-> "queued", success |-> FALSE,
     error |-> None]

\* A variant that takes the collections to publish from the names the
\* manifest has an entry for.
RECURSIVE CollectionsToMark_FromManifest(_, _)
CollectionsToMark_FromManifest(afc, i) ==
    IF i > Len(DATABASES) THEN <<>>
    ELSE LET db == DATABASES[i]
             named == SelectSeq(afc[db], Usable)
         IN [k \in 1..Len(named) |-> PublishFuture(db, named[k])]
            \o CollectionsToMark_FromManifest(afc, i + 1)

\* collections_to_mark (lines 412-415), in the order of all_finished_collections.
RECURSIVE CollectionsToMark(_, _)
CollectionsToMark(afc, i) ==
    IF i > Len(DATABASES) THEN <<>>
    ELSE LET db == DATABASES[i]
         IN [k \in 1..Len(afc[db]) |-> PublishFuture(db, afc[db][k])]
            \o CollectionsToMark(afc, i + 1)

\* Lines 425-439: one future per qualifying collection.
SubmitPublish ==
    /\ pc = "submit_publish"
    /\ pubTask' = Schedule(CollectionsToMark(all_finished_collections, 1),
                           MAX_CONCURRENT_DASHBOARD_BACKEND_WRITES)
    /\ pc' = "publishing"
    /\ UNCHANGED <<exitCode, env, clients, calls, listTask, db_to_collections,
                   list_errors, metaTask, all_finished_collections,
                   metadata_errors, versions_data, public_marking_errors,
                   disk, retrier, responses, applied>>

\* The locals of mark_collection_public at line 127, with the requests made
\* and the sleeps taken so far.
MarkFrame ==
    [returned |-> FALSE, attempt |-> 0, requests |-> 0, sleeps |-> <<>>,
     success |-> FALSE, error |-> None]

\* A variant that takes the conflict response for an error to retry.
PublishedStatus_Without409(code) == code = 200 \/ code = 201

\* A variant that also takes "not found" for published.
PublishedStatus_With404(code) == code = 409 \/ code = 200 \/ code = 201 \/ code = 404

\* Lines 131-136: the status codes that end the call with success.
PublishedStatus(code) == code = 409 \/ code = 200 \/ code = 201

\* A variant that gives up one attempt early.
LastAttempt_OffByOne(attempt) == attempt = MAX_RETRIES_MARK_PUBLIC - 2

\* Lines 139 and 150: the attempt after which the call gives up.
LastAttempt(attempt) == attempt = MAX_RETRIES_MARK_PUBLIC - 1

\* Lines 146 and 157: delay = BASE_RETRY_DELAY * (2**attempt).
BackoffDelay(attempt) == BASE_RETRY_DELAY * (2 ^ attempt)

\* The end of a failed iteration that is not the last: sleep, next attempt;
\* a range that is used up leaves the loop (lines 160-163).
RetryLater(f) ==
    LET slept == [f EXCEPT !.requests = @ + 1,
                           !.sleeps = Append(@, BackoffDelay(f.attempt)),
                           !.attempt = @ + 1]
    IN IF slept.attempt < MAX_RETRIES_MARK_PUBLIC
       THEN slept
       ELSE [slept EXCEPT !.returned = TRUE, !.error = "after attempts"]

\* One iteration of the for loop of mark_collection_public (lines 127-158)
\* with the outcome r of requests.post.
MarkAttempt(f, r) ==
    IF r.kind = "http" /\ PublishedStatus(r.status_code)
    THEN [f EXCEPT !.returned = TRUE, !.requests = @ + 1, !.success = TRUE]
    ELSE IF LastAttempt(f.attempt)
    THEN [f EXCEPT !.returned = TRUE, !.requests = @ + 1,
                   !.error = IF r.kind = "http" THEN "HTTP error" ELSE "exception"]
    ELSE RetryLater(f)

\* mark_collection_public against the outcomes of its requests, in order.
RECURSIVE MarkLoop(_, _)
MarkLoop(f, rs) ==
    IF f.returned \/ rs = <<>> THEN f
    ELSE MarkLoop(MarkAttempt(f, Head(rs)), Tail(rs))

mark_collection_public(rs) == MarkLoop(MarkFrame, rs)

\* The (success, error) pairs the call can return in a run, over every
\* sequence of request outcomes.
PublishResults ==
    {<<mark_collection_public(rs).success, mark_collection_public(rs).error>> :
        rs \in [1..MAX_RETRIES_MARK_PUBLIC -> RunResponses]}

\* mark_collection_public in a worker thread.
MarkCollectionPublic(i) ==
    /\ pc = "publishing"
    /\ pubTask[i].status = "running"
    /\ \E result \in PublishResults :
           pubTask' =
               Schedule([pubTask EXCEPT ![i].status = "done",
                                        ![i].success = result[1],
                                        ![i].error = result[2]],
                        MAX_CONCURRENT_DASHBOARD_BACKEND_WRITES)
    /\ calls' = calls \cup {"post"}
    /\ UNCHANGED <<pc, exitCode, env, clients, listTask, db_to_collections,
                   list_errors, metaTask, all_finished_collections,
                   metadata_errors, versions_data, public_marking_errors,
                   disk, retrier, responses, applied>>

\* A variant that keeps the first publish error only.
HandlePublish_FirstErrorOnly(i) ==
    /\ pc = "publishing"
    /\ pubTask[i].status = "done"
    /\ pubTask' = [pubTask EXCEPT ![i].status = "handled"]
    /\ public_marking_errors' =
           IF ~pubTask[i].success /\ public_marking_errors = <<>>
           THEN Append(public_marking_errors,
                       <<pubTask[i].database, pubTask[i].name, pubTask[i].error>>)
           ELSE public_marking_errors
    /\ UNCHANGED <<pc, exitCode, env, clients, calls, listTask,
                   db_to_collections, list_errors, metaTask,
                   all_finished_collections, metadata_errors, versions_data,
                   disk, retrier, responses, applied>>

\* The body of the as_completed loop for one publish future (lines 441-453).
HandlePublish(i) ==
    /\ pc = "publishing"
    /\ pubTask[i].status = "done"
    /\ pubTask' = [pubTask EXCEPT ![i].status = "handled"]
    /\ public_marking_errors' =
           IF ~pubTask[i].success
           THEN Append(public_marking_errors,
                       <<pubTask[i].database, pubTask[i].name, pubTask[i].error>>)
           ELSE public_marking_errors
    /\ UNCHANGED <<pc, exitCode, env, clients, calls, listTask,
                   db_to_collections, list_errors, metaTask,
                   all_finished_collections, metadata_errors, versions_data,
                   disk, retrier, responses, applied>>

\* A variant that goes on to the commit whatever the publish errors.
PublishAborts_Ignored(errors) == FALSE

\* Lines 456-460, "if public_marking_errors:".
PublishAborts(errors) == errors # <<>>

\* The end of the publish phase (lines 455-460).
FinishPublish ==
    /\ pc = "publishing"
    /\ AllHandled(pubTask)
    /\ IF PublishAborts(public_marking_errors)
       THEN Exit(1)
       ELSE pc' = "committing" /\ UNCHANGED exitCode
    /\ UNCHANGED <<env, clients, calls, listTask, db_to_collections,
                   list_errors, metaTask, all_finished_collections,
                   metadata_errors, versions_data, pubTask,
                   public_marking_errors, disk, retrier, responses, applied>>

\* ------------------------------------------------------------------------
\* main(): committing
\* ------------------------------------------------------------------------
\* What save_versions_json can run into.
SaveOutcomes == {"written", "open raises", "dump raises"}

\* A variant that patches the new entries into the manifest on disk instead
\* of overwriting it.
FilesAfterSave_Patching(file, data, outcome) ==
    CASE outcome = "written" ->
            {FileOf([versions |->
                [db \in DOMAIN data.versions |->
                    IF db = "npm"
                    THEN [prefix \in DOMAIN data.versions[db]
                                     \cup DOMAIN PrevNpmPackages |->
                             IF prefix \in DOMAIN data.versions[db]
                             THEN data.versions[db][prefix]
                             ELSE PrevNpmPackages[prefix]]
                    ELSE data.versions[db]]])}
      [] outcome = "open raises" -> {file}
      [] outcome = "dump raises" -> {EmptyFile, PartialFile}

\* The files save_versions_json may leave behind: open(path, "w") raises
\* before it touches the file; once it has succeeded the old content is
\* gone, and a json.dump (or a flush) that raises leaves the file empty or
\* cut short.
FilesAfterSave(file, data, outcome) ==
    CASE outcome = "written" -> {FileOf(data)}
      [] outcome = "open raises" -> {file}
      [] outcome = "dump raises" -> {EmptyFile, PartialFile}

\* Lines 466-471 and 488: save_versions_json, then exit 0, or exit 1 on
\* SyncError.
SaveVersions ==
    /\ pc = "committing"
    /\ \E outcome \in SaveOutcomes :
        /\ disk' \in FilesAfterSave(disk, versions_data, outcome)
        /\ Exit(IF outcome = "written" THEN 0 ELSE 1)
        /\ calls' = calls \cup (IF outcome = "written"
                                THEN {"save_versions_json"}
                                ELSE {"save_versions_json", "SyncError"})
    /\ UNCHANGED <<env, clients, listTask, db_to_collections, list_errors,
                   metaTask, all_finished_collections, metadata_errors,
                   versions_data, pubTask, public_marking_errors, retrier,
                   responses, applied>>

\* ------------------------------------------------------------------------
\* The run
\* ------------------------------------------------------------------------
\* os.getenv of a required variable: a value, the empty string, or None.
EnvAllSet == [v \in REQUIRED_ENV |-> "value"]

Environments ==
    {EnvAllSet}
    \cup {[EnvAllSet EXCEPT ![v] = x] : v \in REQUIRED_ENV, x \in {"", None}}

Init ==
    /\ pc = "start"
    /\ exitCode = -1
    /\ env \in Environments
    /\ clients = {}
    /\ calls = {}
    /\ listTask = <<>>
    /\ db_to_collections = <<>>
    /\ list_errors = <<>>
    /\ metaTask = <<>>
    /\ all_finished_collections = <<>>
    /\ metadata_errors = <<>>
    /\ versions_data = [versions |-> <<>>]
    /\ pubTask = <<>>
    /\ public_marking_errors = <<>>
    /\ disk = PrevFile
    /\ retrier = MarkFrame
    /\ responses = <<>>
    /\ applied = <<>>

Next ==
    \/ CheckEnvironment
    \/ InitializeClients
    \/ GetCollectionCounts
    \/ SubmitListing
    \/ \E i \in DOMAIN listTask : ListCollections(i)
    \/ \E i \in DOMAIN listTask : HandleListing(i)
    \/ FinishListing
    \/ \E i \in DOMAIN metaTask : CheckMetadata(i)
    \/ \E i \in DOMAIN metaTask : HandleMetadata(i)
    \/ BuildVersionsData
    \/ SubmitPublish
    \/ \E i \in DOMAIN pubTask : MarkCollectionPublic(i)
    \/ \E i \in DOMAIN pubTask : HandlePublish(i)
    \/ FinishPublish
    \/ SaveVersions

Spec == Init /\ [][Next]_vars

\* The main thread and the pool threads keep being scheduled and every
\* remote call returns: a step that stays possible is taken.
Fairness ==
    /\ WF_vars(CheckEnvironment)
    /\ WF_vars(InitializeClients)
    /\ WF_vars(GetCollectionCounts)
    /\ WF_vars(SubmitListing)
    /\ WF_vars(\E i \in DOMAIN listTask : ListCollections(i))
    /\ WF_vars(\E i \in DOMAIN listTask : HandleListing(i))
    /\ WF_vars(FinishListing)
    /\ WF_vars(\E i \in DOMAIN metaTask : CheckMetadata(i))
    /\ WF_vars(\E i \in DOMAIN metaTask : HandleMetadata(i))
    /\ WF_vars(BuildVersionsData)
    /\ WF_vars(SubmitPublish)
    /\ WF_vars(\E i \in DOMAIN pubTask : MarkCollectionPublic(i))
    /\ WF_vars(\E i \in DOMAIN pubTask : HandlePublish(i))
    /\ WF_vars(FinishPublish)
    /\ WF_vars(SaveVersions)

SpecLive == Init /\ [][Next]_vars /\ Fairness

\* ------------------------------------------------------------------------
\* A single mark_collection_public call against every response sequence
\* ------------------------------------------------------------------------
AllResponses ==
    {HttpResponse(c) : c \in {200, 201, 409, 400, 404, 500, 503}} \cup {PostRaises}

InitPublish ==
    /\ pc = "idle"
    /\ exitCode = -1
    /\ env = EnvAllSet
    /\ clients = {}
    /\ calls = {}
    /\ listTask = <<>>
    /\ db_to_collections = <<>>
    /\ list_errors = <<>>
    /\ metaTask = <<>>
    /\ all_finished_collections = <<>>
    /\ metadata_errors = <<>>
    /\ versions_data = [versions |-> <<>>]
    /\ pubTask = <<>>
    /\ public_marking_errors = <<>>
    /\ disk = PrevFile
    /\ retrier = MarkFrame
    /\ responses = <<>>
    /\ applied = <<>>

\* One iteration of the for loop of mark_collection_public.
RetrierAttempt ==
    /\ ~retrier.returned
    /\ \E r \in AllResponses :
        /\ retrier' = MarkAttempt(retrier, r)
        /\ responses' = Append(responses, r)
    /\ UNCHANGED <<pc, exitCode, env, clients, calls, listTask,
                   db_to_collections, list_errors, metaTask,
                   all_finished_collections, metadata_errors, versions_data,
                   pubTask, public_marking_errors, disk, applied>>

NextPublish == RetrierAttempt

SpecPublish == InitPublish /\ [][NextPublish]_vars

\* ------------------------------------------------------------------------
\* The metadata phase on its own, with what the remote answered on record
\* ------------------------------------------------------------------------
MetadataAnswer(md) == [raises |-> FALSE, md |-> md, msg |-> ""]
MetadataRaise(msg) == [raises |-> TRUE, md |-> MdNone, msg |-> msg]

\* get_collection_metadata against one answer of the remote.
get_collection_metadata(t, answer) ==
    IF answer.raises THEN MetadataExcept(t, answer.msg)
    ELSE MetadataReturn(t, answer.md)

\* The listings the metadata phase may start from: at most one name per
\* database, at most MaxListed names.
ListingsToCheck ==
    {dtc \in [Backends -> {<<>>} \cup {<<n>> : n \in RunNames}] :
        Cardinality({db \in Backends : dtc[db] # <<>>}) \in 1..MaxListed}

InitMetadata ==
    /\ pc = "filtering"
    /\ exitCode = -1
    /\ env = EnvAllSet
    /\ clients = Backends
    /\ calls = {}
    /\ listTask = <<>>
    /\ db_to_collections \in ListingsToCheck
    /\ list_errors = <<>>
    /\ metaTask = Schedule(MetadataTasks(db_to_collections, 1),
                           MAX_CONCURRENT_CHROMA_READS)
    /\ all_finished_collections = [db \in Backends |-> <<>>]
    /\ metadata_errors = <<>>
    /\ versions_data = [versions |-> <<>>]
    /\ pubTask = <<>>
    /\ public_marking_errors = <<>>
    /\ disk = PrevFile
    /\ retrier = MarkFrame
    /\ responses = <<>>
    /\ applied = <<>>

\* get_collection_metadata in a worker thread, the answer kept on record
\* with the index of the task.
CheckMetadataOnRecord(i) ==
    /\ pc = "filtering"
    /\ metaTask[i].status = "running"
    /\ \E answer \in {MetadataAnswer(md) : md \in RunMetadata}
                     \cup {MetadataRaise(msg) : msg \in ExcMessages} :
        /\ metaTask' = Schedule([metaTask EXCEPT
                                    ![i] = get_collection_metadata(@, answer)],
                                MAX_CONCURRENT_CHROMA_READS)
        /\ responses' = Append(responses, [task |-> i, answer |-> answer])
    /\ calls' = calls \cup {"get_collection"}
    /\ UNCHANGED <<pc, exitCode, env, clients, listTask, db_to_collections,
                   list_errors, all_finished_collections, metadata_errors,
                   versions_data, pubTask, public_marking_errors, disk,
                   retrier, applied>>

NextMetadata ==
    \/ \E i \in DOMAIN metaTask : CheckMetadataOnRecord(i)
    \/ \E i \in DOMAIN metaTask : HandleMetadata(i)

SpecMetadata == InitMetadata /\ [][NextMetadata]_vars

\* The version strings the builder is run on: releases whose numeric and
\* lexical orders differ, two spellings of one release, a pre-release
\* spelling, and a string that is no version.
BuildVersions ==
    {<<"2", ".", "0">>, <<"1", ".", "1", "0">>, <<"1", ".", "9">>,
     <<"1", ".", "9", ".", "1">>, <<"1", ".", "0">>, <<"1", ".", "0", ".", "0">>,
     <<"1", ".", "0", "-", "b", "e", "t", "a">>, <<"b">>}

\* The collections of package "a" with these versions, two collections of
\* a second package "c", and a name without a version and one without a
\* prefix.
BuildNames ==
    {<<"a", "_">> \o v : v \in BuildVersions}
        \cup {<<"c", "_", "1", ".", "9">>, <<"c", "_", "1", ".", "1", "0">>}
        \cup {<<"a", "_">>, <<"_", "1">>}

\* The qualifying sets of the first database the builder is run on, in
\* every arrival order.
BuildInputs == UNION {[1..n -> BuildNames] : n \in 1..MaxVersions}

\* The state of a run whose listing and metadata checks are over: the
\* first database has listed the names, every one of them is finished.
InitBuild ==
    \E names \in BuildInputs :
        /\ pc = "filtering"
        /\ exitCode = -1
        /\ env = EnvAllSet
        /\ clients = Backends
        /\ calls = {"CloudClient", "count_collections", "list_collections",
                    "get_collection"}
        /\ db_to_collections =
               [db \in Backends |-> IF db = DATABASES[1] THEN names ELSE <<>>]
        /\ listTask =
               [i \in 1..Len(DATABASES) |->
                   [ListingFuture(DATABASES[i]) EXCEPT
                       !.status = "handled",
                       !.names = db_to_collections[DATABASES[i]]]]
        /\ list_errors = <<>>
        /\ metaTask =
               [k \in 1..Len(names) |->
                   [MetadataFuture(DATABASES[1], names[k]) EXCEPT
                       !.status = "handled", !.collection = <<names[k]>>]]
        /\ all_finished_collections = db_to_collections
        /\ metadata_errors = <<>>
        /\ versions_data = [versions |-> <<>>]
        /\ pubTask = <<>>
        /\ public_marking_errors = <<>>
        /\ disk = PrevFile
        /\ retrier = MarkFrame
        /\ responses = <<>>
        /\ applied = <<>>

NextBuild == BuildVersionsData \/ SubmitPublish

SpecBuild == InitBuild /\ [][NextBuild]_vars

\* ------------------------------------------------------------------------
\* A run with more collections than either pool has workers
\* ------------------------------------------------------------------------
\* The decimal numeral of k.
RECURSIVE Decimal(_)
Decimal(k) ==
    IF k < 10 THEN <<Digits[k + 1]>>
    ELSE Decimal(k \div 10) \o <<Digits[(k % 10) + 1]>>

\* The k-th collection of the run: version 1 of package p<k>.
PoolName(k) == <<"p">> \o Decimal(k) \o <<"_", "1">>

\* The listing phase is over: the first database lists PoolTasks
\* collections, the others none.
InitPool ==
    /\ pc = "listing"
    /\ exitCode = -1
    /\ env = EnvAllSet
    /\ clients = Backends
    /\ calls = {"CloudClient", "count_collections", "list_collections"}
    /\ db_to_collections =
           [db \in Backends |->
               IF db = DATABASES[1] THEN [k \in 1..PoolTasks |-> PoolName(k)]
               ELSE <<>>]
    /\ listTask =
           [i \in 1..Len(DATABASES) |->
               [ListingFuture(DATABASES[i]) EXCEPT
                   !.status = "handled",
                   !.names = db_to_collections[DATABASES[i]]]]
    /\ list_errors = <<>>
    /\ metaTask = <<>>
    /\ all_finished_collections = <<>>
    /\ metadata_errors = <<>>
    /\ versions_data = [versions |-> <<>>]
    /\ pubTask = <<>>
    /\ public_marking_errors = <<>>
    /\ disk = PrevFile
    /\ retrier = MarkFrame
    /\ responses = <<>>
    /\ applied = <<>>

\* Task i is the one that has been running, or waiting for the loop over
\* as_completed, for the longest time.
Oldest(tasks, i, st) ==
    /\ tasks[i].status = st
    /\ \A j \in 1..(i - 1) : tasks[j].status # st

\* The schedule the run follows: the calls return in the order they were
\* started, every collection is finished and every publish call succeeds.
PoolCheckMetadata ==
    \E i \in DOMAIN metaTask :
        /\ Oldest(metaTask, i, "running")
        /\ CheckMetadata(i)
        /\ metaTask'[i].collection # <<>>

PoolHandleMetadata ==
    \E i \in DOMAIN metaTask : Oldest(metaTask, i, "done") /\ HandleMetadata(i)

PoolMarkCollectionPublic ==
    \E i \in DOMAIN pubTask :
        /\ Oldest(pubTask, i, "running")
        /\ MarkCollectionPublic(i)
        /\ pubTask'[i].success

PoolHandlePublish ==
    \E i \in DOMAIN pubTask : Oldest(pubTask, i, "done") /\ HandlePublish(i)

NextPool ==
    \/ FinishListing
    \/ PoolCheckMetadata
    \/ PoolHandleMetadata
    \/ BuildVersionsData
    \/ SubmitPublish
    \/ PoolMarkCollectionPublic
    \/ PoolHandlePublish
    \/ FinishPublish
    \/ SaveVersions

SpecPool == InitPool /\ [][NextPool]_vars

\* ------------------------------------------------------------------------
\* A single list_collections_for_database call against every remote
\* ------------------------------------------------------------------------
\* What the remote may answer to one request: a page of names, the empty
\* page, or an exception.
ListingAnswers ==
    {PageAnswer(p) : p \in PagesUpTo(MaxPageLen)}
        \cup {PageAnswer(<<>>)}
        \cup {RaiseAnswer(msg) : msg \in ExcMessages}

InitListing ==
    /\ pc = "idle"
    /\ exitCode = -1
    /\ env = EnvAllSet
    /\ clients = Backends
    /\ calls = {}
    /\ listTask = <<>>
    /\ db_to_collections = <<>>
    /\ list_errors = <<>>
    /\ metaTask = <<>>
    /\ all_finished_collections = <<>>
    /\ metadata_errors = <<>>
    /\ versions_data = [versions |-> <<>>]
    /\ pubTask = <<>>
    /\ public_marking_errors = <<>>
    /\ disk = PrevFile
    /\ retrier = MarkFrame
    /\ responses = <<>>
    /\ applied = <<ListingFrame>>

\* One iteration of the while loop of list_collections_for_database, the
\* answer of the remote kept on record.
ListingRequest ==
    /\ ~applied[1].returned
    /\ Len(responses) < MaxRequests
    /\ \E answer \in ListingAnswers :
        /\ applied' = <<ListStep(applied[1], answer)>>
        /\ responses' = Append(responses, answer)
    /\ UNCHANGED <<pc, exitCode, env, clients, calls, listTask,
                   db_to_collections, list_errors, metaTask,
                   all_finished_collections, metadata_errors, versions_data,
                   pubTask, public_marking_errors, disk, retrier>>

NextListing == ListingRequest

SpecListing == InitListing /\ [][NextListing]_vars

\* ------------------------------------------------------------------------
\* parse_collection_name on its own
\* ------------------------------------------------------------------------
\* The characters of the names: a letter, the separator, a digit, the dot.
NameChars == {"a", "_", "1", "."}

\* Every name of at most MaxNameLen characters.
ParseNames == UNION {[1..n -> NameChars] : n \in 0..MaxNameLen}

InitParse ==
    /\ pc = "idle"
    /\ exitCode = -1
    /\ env = EnvAllSet
    /\ clients = {}
    /\ calls = {}
    /\ listTask = <<>>
    /\ db_to_collections = <<>>
    /\ list_errors = <<>>
    /\ metaTask = <<>>
    /\ all_finished_collections = <<>>
    /\ metadata_errors = <<>>
    /\ versions_data = [versions |-> <<>>]
    /\ pubTask = <<>>
    /\ public_marking_errors = <<>>
    /\ disk = PrevFile
    /\ retrier = MarkFrame
    /\ responses = <<>>
    /\ applied = <<>>

\* One call of parse_collection_name.
ApplyParse ==
    /\ applied = <<>>
    /\ \E name \in ParseNames :
           applied' = <<[argument |-> name, result |-> parse_collection_name(name)]>>
    /\ UNCHANGED <<pc, exitCode, env, clients, calls, listTask,
                   db_to_collections, list_errors, metaTask,
                   all_finished_collections, metadata_errors, versions_data,
                   pubTask, public_marking_errors, disk, retrier, responses>>

NextParse == ApplyParse

SpecParse == InitParse /\ [][NextParse]_vars

\* ------------------------------------------------------------------------
\* get_possible_restorations on its own
\* ------------------------------------------------------------------------
VALID_REGISTRIES == {"npm", "py_pi", "crates_io", "golang_proxy", "github_releases"}

\* sub in s
Contains(s, sub) == \E i \in 1..(Len(s) + 1) : StartsAt(s, i, sub)

\* s.split(c) for a character c.
RECURSIVE SplitOn(_, _)
SplitOn(s, c) ==
    IF \A i \in 1..Len(s) : s[i] # c
    THEN <<s>>
    ELSE LET d == CHOOSE i \in 1..Len(s) :
                      s[i] = c /\ \A j \in 1..(i - 1) : s[j] # c
         IN <<SubSeq(s, 1, d - 1)>> \o SplitOn(SubSeq(s, d + 1, Len(s)), c)

\* s.split(c, 1): at the first c only.
SplitOnce(s, c) ==
    IF \A i \in 1..Len(s) : s[i] # c
    THEN <<s>>
    ELSE LET d == CHOOSE i \in 1..Len(s) :
                      s[i] = c /\ \A j \in 1..(i - 1) : s[j] # c
         IN <<SubSeq(s, 1, d - 1), SubSeq(s, d + 1, Len(s))>>

\* c.join(parts)
RECURSIVE Join(_, _)
Join(parts, c) ==
    IF parts = <<>> THEN <<>>
    ELSE IF Len(parts) = 1 THEN parts[1]
    ELSE parts[1] \o <<c>> \o Join(Tail(parts), c)

\* s.replace(old, new): the occurrences of old from left to right, none
\* overlapping another.
RECURSIVE Replace(_, _, _)
Replace(s, old, new) ==
    IF s = <<>> THEN <<>>
    ELSE IF StartsAt(s, 1, old)
    THEN new \o Replace(SubSeq(s, Len(old) + 1, Len(s)), old, new)
    ELSE <<Head(s)>> \o Replace(Tail(s), old, new)

Socketio == <<"s", "o", "c", "k", "e", "t", "i", "o">>
SocketDotIo == <<"s", "o", "c", "k", "e", "t", ".", "i", "o">>
GithubPrefix == <<"g", "i", "t", "h", "u", "b", ".", "c", "o", "m", "_">>

\* f"@{parts[0]}/{parts[1]}", or f"@{parts[0]}" for a single part.
Scoped(parts) ==
    IF Len(parts) = 2 THEN <<"@">> \o parts[1] \o <<"/">> \o parts[2]
    ELSE <<"@">> \o parts[1]

\* A variant that tries the identifier as it is first.
get_npm_restorations_as_is_first(native_id) ==
    <<native_id>>
    \o (IF Contains(native_id, <<"_">>)
        THEN <<Scoped(SplitOnce(IF StartsAt(native_id, 1, <<"_">>)
                                THEN Tail(native_id) ELSE native_id, "_"))>>
        ELSE <<>>)

get_npm_restorations(native_id) ==
    (IF Contains(native_id, <<"_">>)
     THEN IF StartsAt(native_id, 1, <<"_">>)
          THEN <<Scoped(SplitOnce(Tail(native_id), "_"))>>
          ELSE LET parts == SplitOnce(native_id, "_")
               IN IF Len(parts) = 2 THEN <<Scoped(parts)>> ELSE <<>>
     ELSE <<>>)
    \o (IF Contains(native_id, Socketio)
        THEN <<Replace(native_id, Socketio, SocketDotIo)>>
        ELSE <<>>)
    \o <<native_id>>

get_golang_restorations(native_id) ==
    (IF Contains(native_id, <<"_">>)
     THEN IF StartsAt(native_id, 1, GithubPrefix)
          THEN LET parts == SplitOn(native_id, "_")
               IN IF Len(parts) >= 3
                  THEN <<parts[1] \o <<"/">> \o parts[2] \o <<"/">>
                         \o Join(SubSeq(parts, 3, Len(parts)), "_")>>
                  ELSE <<Replace(native_id, <<"_">>, <<"/">>)>>
          ELSE <<Replace(native_id, <<"_">>, <<"/">>)>>
     ELSE <<>>)
    \o <<native_id>>

\* The list before deduplication (lines 250-260).
Possibilities(native_id, registry) ==
    IF registry = "npm" THEN get_npm_restorations(native_id)
    ELSE IF registry = "golang_proxy" THEN get_golang_restorations(native_id)
    ELSE (IF Contains(native_id, <<"_">>)
          THEN <<Replace(native_id, <<"_">>, <<"/">>)>>
          ELSE <<>>)
         \o <<native_id>>

\* The first occurrence of every item, in order.
RECURSIVE deduplicate_list(_)
deduplicate_list(items) ==
    IF items = <<>> THEN <<>>
    ELSE LET front == deduplicate_list(SubSeq(items, 1, Len(items) - 1))
             item == items[Len(items)]
         IN IF \E i \in 1..Len(front) : front[i] = item
            THEN front
            ELSE Append(front, item)

get_possible_restorations(native_id, registry) ==
    deduplicate_list(Possibilities(native_id, registry))

\* The identifiers of the examples in the code and in its comments.
Id_types_node == <<"_", "t", "y", "p", "e", "s", "_", "n", "o", "d", "e">>
Id_github_repo_x ==
    GithubPrefix \o <<"u", "s", "e", "r", "_", "r", "e", "p", "o", "_", "x">>
Id_github_user == GithubPrefix \o <<"u", "s", "e", "r">>
Id_aws_crypto_util ==
    <<"a", "w", "s", "-", "c", "r", "y", "p", "t", "o", "_", "u", "t", "i", "l">>
Id_socketio_client == Socketio \o <<"_", "c", "l", "i", "e", "n", "t">>

\* The identifiers the function is applied to: the examples, and every
\* string of a letter, the underscore and the dot up to MaxIdLen characters.
RestoreIds ==
    {Id_types_node, Id_github_repo_x, Id_github_user, Id_aws_crypto_util,
     Id_socketio_client, Socketio}
        \cup UNION {[1..n -> {"a", "_", "."}] : n \in 0..MaxIdLen}

InitRestore ==
    /\ pc = "idle"
    /\ exitCode = -1
    /\ env = EnvAllSet
    /\ clients = {}
    /\ calls = {}
    /\ listTask = <<>>
    /\ db_to_collections = <<>>
    /\ list_errors = <<>>
    /\ metaTask = <<>>
    /\ all_finished_collections = <<>>
    /\ metadata_errors = <<>>
    /\ versions_data = [versions |-> <<>>]
    /\ pubTask = <<>>
    /\ public_marking_errors = <<>>
    /\ disk = PrevFile
    /\ retrier = MarkFrame
    /\ responses = <<>>
    /\ applied = <<>>

\* One call of get_possible_restorations, its local list kept on record.
ApplyRestorations ==
    /\ applied = <<>>
    /\ \E native_id \in RestoreIds, registry \in VALID_REGISTRIES :
           applied' = <<[native_id |-> native_id, registry |-> registry,
                         possibilities |-> Possibilities(native_id, registry),
                         result |-> get_possible_restorations(native_id, registry)]>>
    /\ UNCHANGED <<pc, exitCode, env, clients, calls, listTask,
                   db_to_collections, list_errors, metaTask,
                   all_finished_collections, metadata_errors, versions_data,
                   pubTask, public_marking_errors, disk, retrier, responses>>

NextRestore == ApplyRestorations

SpecRestore == InitRestore /\ [][NextRestore]_vars

\* ------------------------------------------------------------------------
\* retry_with_exponential_backoff around a function that returns or raises
\* ------------------------------------------------------------------------
\* The base delays the decorator is given.
BaseDelays == {1, 2}

\* What a call of the decorated function does: it returns a value, or it
\* raises an exception.
FuncOutcomes ==
    {[returns |-> TRUE, value |-> "result", exc |-> None]}
        \cup {[returns |-> FALSE, value |-> None, exc |-> msg] : msg \in ExcMessages}

\* The locals of wrapper at line 30, with the calls made and the sleeps
\* taken so far; an exception that leaves the wrapper is kept with the
\* number of the call that raised it.
RetryFrame(max_retries, base_delay) ==
    [max_retries |-> max_retries, base_delay |-> base_delay, attempt |-> 0,
     last_exception |-> None, calls |-> 0, sleeps |-> <<>>, done |-> FALSE,
     result |-> None, raised |-> None]

\* A variant that doubles the delay once more.
RetryDelay_Doubled(base_delay, attempt) == base_delay * (2 ^ (attempt + 1))

\* Line 44: delay = base_delay * (2**attempt).
RetryDelay(base_delay, attempt) == base_delay * (2 ^ attempt)

\* One iteration of the for loop (lines 33-52) with the outcome o of the
\* call of func.
WrapperAttempt(f, o) ==
    IF o.returns
    THEN [f EXCEPT !.calls = @ + 1, !.done = TRUE, !.result = o.value]
    ELSE IF f.attempt = f.max_retries - 1
    THEN [f EXCEPT !.calls = @ + 1, !.done = TRUE,
                   !.last_exception = <<f.calls + 1, o.exc>>,
                   !.raised = <<f.calls + 1, o.exc>>]
    ELSE [f EXCEPT !.calls = @ + 1,
                   !.last_exception = <<f.calls + 1, o.exc>>,
                   !.sleeps = Append(@, RetryDelay(f.base_delay, f.attempt)),
                   !.attempt = @ + 1]

InitRetry ==
    /\ pc = "idle"
    /\ exitCode = -1
    /\ env = EnvAllSet
    /\ clients = {}
    /\ calls = {}
    /\ listTask = <<>>
    /\ db_to_collections = <<>>
    /\ list_errors = <<>>
    /\ metaTask = <<>>
    /\ all_finished_collections = <<>>
    /\ metadata_errors = <<>>
    /\ versions_data = [versions |-> <<>>]
    /\ pubTask = <<>>
    /\ public_marking_errors = <<>>
    /\ disk = PrevFile
    /\ retrier = MarkFrame
    /\ responses = <<>>
    /\ \E max_retries \in 0..MaxRetryLimit, base_delay \in BaseDelays :
           applied = <<RetryFrame(max_retries, base_delay)>>

\* The body of the for loop, the outcome of the call kept on record.
RetryIteration ==
    /\ ~applied[1].done
    /\ applied[1].attempt < applied[1].max_retries
    /\ \E o \in FuncOutcomes :
        /\ applied' = <<WrapperAttempt(applied[1], o)>>
        /\ responses' = Append(responses, o)
    /\ UNCHANGED <<pc, exitCode, env, clients, calls, listTask,
                   db_to_collections, list_errors, metaTask,
                   all_finished_collections, metadata_errors, versions_data,
                   pubTask, public_marking_errors, disk, retrier>>

\* Line 55, after a range that is used up: "raise last_exception", which
\* with no exception on record raises a TypeError.
RetryFallThrough ==
    /\ ~applied[1].done
    /\ applied[1].attempt >= applied[1].max_retries
    /\ applied' = <<[applied[1] EXCEPT
                        !.done = TRUE,
                        !.raised = IF applied[1].last_exception = None
                                   THEN <<0, "TypeError">>
                                   ELSE applied[1].last_exception]>>
    /\ UNCHANGED <<pc, exitCode, env, clients, calls, listTask,
                   db_to_collections, list_errors, metaTask,
                   all_finished_collections, metadata_errors, versions_data,
                   pubTask, public_marking_errors, disk, retrier, responses>>

NextRetry == RetryIteration \/ RetryFallThrough

SpecRetry == InitRetry /\ [][NextRetry]_vars

\* ------------------------------------------------------------------------
\* validate_changes/main.py: main(file_paths)
\* ------------------------------------------------------------------------
\* The working tree: what is found at each path relative to the repository
\* root.
Repo ==
    [p \in {"pkg/config.json", "pkg/index.json", "README.md", "pkg/gone.json"} |->
        CASE p = "pkg/config.json" -> "well-formed"
          [] p = "pkg/index.json" -> "malformed"
          [] p = "README.md" -> "other"
          [] p = "pkg/gone.json" -> "absent"]

\* os.path.basename of the paths of the working tree.
BaseName ==
    [p \in DOMAIN Repo |->
        CASE p = "pkg/config.json" -> "config.json"
          [] p = "pkg/index.json" -> "index.json"
          [] p = "README.md" -> "README.md"
          [] p = "pkg/gone.json" -> "gone.json"]

\* The keys of validators at validation_utils.py line 338.
Validators == {"config.json", "index.json", "versions.json"}

\* Lines 24-32: str(repo_root / file_path) when that exists, None for the
\* FileNotFoundError.
resolve_file_path(file_path) ==
    IF Repo[file_path] # "absent" THEN <<"repo_root", file_path>> ELSE None

\* validate_file, its message left out: a file that is not there is
\* invalid, a file of no validated type is valid, any other file is what its
\* validator says.
validate_file(resolved_path) ==
    IF Repo[resolved_path[2]] = "absent" THEN FALSE
    ELSE IF BaseName[resolved_path[2]] \notin Validators THEN TRUE
    ELSE Repo[resolved_path[2]] = "well-formed"

\* The locals of main at line 35, the index of each loop, the calls of
\* logger.summary and the value returned.
ValidateFrame(file_paths) ==
    [file_paths |-> file_paths, line |-> "start", i |-> 1,
     all_files_valid |-> TRUE, failed_files |-> <<>>, resolved_paths |-> <<>>,
     summary |-> <<>>, result |-> None]

\* Lines 40-52.
MainStart(f) ==
    IF f.file_paths = <<>>
    THEN [f EXCEPT !.line = "returned", !.result = TRUE]
    ELSE [f EXCEPT !.line = "resolve"]

\* Lines 53-60 for one file_path.
MainResolve(f) ==
    LET file_path == f.file_paths[f.i]
        resolved_path == resolve_file_path(file_path)
    IN IF resolved_path # None
       THEN [f EXCEPT !.resolved_paths = Append(@, resolved_path), !.i = @ + 1]
       ELSE [f EXCEPT !.failed_files = Append(@, file_path),
                      !.all_files_valid = FALSE, !.i = @ + 1]

\* Lines 64-74 for one resolved path.
MainValidate(f) ==
    LET file_path == f.resolved_paths[f.i]
    IN IF validate_file(file_path)
       THEN [f EXCEPT !.i = @ + 1]
       ELSE [f EXCEPT !.all_files_valid = FALSE,
                      !.failed_files = Append(@, file_path), !.i = @ + 1]

\* Lines 77-80.
MainSummary(f) ==
    LET passed_count == Len(f.resolved_paths) - Len(f.failed_files)
    IN [f EXCEPT !.summary = Append(@, [passed |-> passed_count,
                                        failed |-> Len(f.failed_files),
                                        total |-> Len(f.resolved_paths)]),
                 !.result = f.all_files_valid, !.line = "returned"]

PathLists ==
    UNION {[1..n -> DOMAIN Repo] : n \in 0..MaxPaths}

InitValidate ==
    /\ pc = "idle"
    /\ exitCode = -1
    /\ env = EnvAllSet
    /\ clients = {}
    /\ calls = {}
    /\ listTask = <<>>
    /\ db_to_collections = <<>>
    /\ list_errors = <<>>
    /\ metaTask = <<>>
    /\ all_finished_collections = <<>>
    /\ metadata_errors = <<>>
    /\ versions_data = [versions |-> <<>>]
    /\ pubTask = <<>>
    /\ public_marking_errors = <<>>
    /\ disk = PrevFile
    /\ retrier = MarkFrame
    /\ responses = <<>>
    /\ \E file_paths \in PathLists : applied = <<ValidateFrame(file_paths)>>

ValidateUnchanged ==
    UNCHANGED <<pc, exitCode, env, clients, calls, listTask, db_to_collections,
                list_errors, metaTask, all_finished_collections,
                metadata_errors, versions_data, pubTask, public_marking_errors,
                disk, retrier, responses>>

ValidateStart ==
    /\ applied[1].line = "start"
    /\ applied' = <<MainStart(applied[1])>>
    /\ ValidateUnchanged

ResolveNext ==
    /\ applied[1].line = "resolve"
    /\ applied[1].i <= Len(applied[1].file_paths)
    /\ applied' = <<MainResolve(applied[1])>>
    /\ ValidateUnchanged

\* Line 62: the first loop is over, the second one starts.
ResolveDone ==
    /\ applied[1].line = "resolve"
    /\ applied[1].i > Len(applied[1].file_paths)
    /\ applied' = <<[applied[1] EXCEPT !.line = "validate", !.i = 1]>>
    /\ ValidateUnchanged

ValidateNext ==
    /\ applied[1].line = "validate"
    /\ applied[1].i <= Len(applied[1].resolved_paths)
    /\ applied' = <<MainValidate(applied[1])>>
    /\ ValidateUnchanged

Summarize ==
    /\ applied[1].line = "validate"
    /\ applied[1].i > Len(applied[1].resolved_paths)
    /\ applied' = <<MainSummary(applied[1])>>
    /\ ValidateUnchanged

NextValidate ==
    \/ ValidateStart
    \/ ResolveNext
    \/ ResolveDone
    \/ ValidateNext
    \/ Summarize

SpecValidate == InitValidate /\ [][NextValidate]_vars

\* ------------------------------------------------------------------------
\* Vocabulary of the properties
\* ------------------------------------------------------------------------
Range(seq) == {seq[i] : i \in 1..Len(seq)}

Finished(t) == t.status \in {"done", "handled"}

\* The publish phase has run to its end.
PublishPhaseOver ==
    pc = "committing" \/ (pc = "exited" /\ "build" \in calls)

\* A run wrote a complete document over the earlier manifest.
Saved == disk.kind = "document" /\ disk # PrevFile

\* The registry object a file holds for a database, as its (prefix,
\* versions) pairs; the databases a file has a key for.
FileKeys(file) == {file.text[2][k][1] : k \in 1..Len(file.text[2])}

FilePackages(file, db) ==
    LET k == CHOOSE j \in 1..Len(file.text[2]) : file.text[2][j][1] = db
    IN file.text[2][k][2]

\* The (prefix, version) entries a file holds for a database.
FileEntries(file, db) ==
    LET packages == FilePackages(file, db)
    IN UNION {{<<packages[k][1], v>> : v \in Range(packages[k][2])} :
                 k \in 1..Len(packages)}

\* name is prefix, "_", version.
Named(name, prefix, version) == name = prefix \o <<"_">> \o version

\* ------------------------------------------------------------------------
\* Properties
\* ------------------------------------------------------------------------

\* C1: versions.json is written only after every publish sequence of the run
\* has ended in success; once an item has failed for good,
\* save_versions_json is never called, the file keeps its content and the
\* run can only exit with status 1; every entry of a saved manifest is the
\* name of a collection published in this run.
C1_SaveOnlyAfterFullPublish ==
    /\ ("save_versions_json" \in calls \/ disk # PrevFile) =>
          \A i \in DOMAIN pubTask :
              pubTask[i].status = "handled" /\ pubTask[i].success
    /\ (\E i \in DOMAIN pubTask : Finished(pubTask[i]) /\ ~pubTask[i].success) =>
          /\ "save_versions_json" \notin calls
          /\ disk = PrevFile
          /\ pc = "exited" => exitCode = 1
    /\ Saved =>
          \A db \in Backends : \A e \in FileEntries(disk, db) :
              \E i \in DOMAIN pubTask :
                  /\ pubTask[i].database = db
                  /\ Named(pubTask[i].name, e[1], e[2])
                  /\ pubTask[i].success

\* C1 witness: the run has exited with status 1 after one item used up its
\* attempts while another item was published.
C1_Witness ==
    /\ pc = "exited" /\ exitCode = 1
    /\ \E i, j \in DOMAIN pubTask :
          /\ pubTask[i].status = "handled" /\ ~pubTask[i].success
          /\ pubTask[j].status = "handled" /\ pubTask[j].success

\* C2: once list_collections_for_database has returned an error for a
\* backend, no metadata check is started, no manifest is built, no publish
\* call is made, versions.json is not written, and the run can only exit
\* with status 1.
C2_ListingErrorStopsRun ==
    (\E i \in DOMAIN listTask : Finished(listTask[i]) /\ listTask[i].error # None) =>
        /\ "get_collection" \notin calls
        /\ "build" \notin calls
        /\ "post" \notin calls
        /\ "save_versions_json" \notin calls
        /\ disk = PrevFile
        /\ pc = "exited" => exitCode = 1

\* C3: when save_versions_json raises SyncError the run exits with status 1
\* and versions.json still holds the content it had before the run.
C3_FailedSaveKeepsManifest ==
    "SyncError" \in calls => (pc = "exited" /\ exitCode = 1 /\ disk = PrevFile)

\* C4: at the end of the publish phase every qualifying (collection,
\* backend) pair has been handed to exactly one mark_collection_public call.
C4_PublishedExactlyOnce ==
    PublishPhaseOver =>
        \A db \in Backends : \A name \in Range(all_finished_collections[db]) :
            Cardinality({i \in DOMAIN pubTask :
                            /\ pubTask[i].database = db
                            /\ pubTask[i].name = name
                            /\ pubTask[i].status = "handled"}) = 1

\* C5: in the manifest built from the qualifying set no version sequence
\* holds a version string twice.
C5_NoDuplicateVersions ==
    "build" \in calls =>
        \A db \in DOMAIN versions_data.versions :
            \A prefix \in DOMAIN versions_data.versions[db] :
                LET vs == versions_data.versions[db][prefix]
                IN \A i, j \in 1..Len(vs) : vs[i] = vs[j] => i = j

\* The orders in which the elements of a sequence can arrive.
Arrivals(seq) ==
    {[i \in 1..Len(seq) |-> seq[p[i]]] :
        p \in {q \in [1..Len(seq) -> 1..Len(seq)] :
                  \A i, j \in 1..Len(seq) : q[i] = q[j] => i = j}}

\* C6: the serialized manifest is the same for every arrival order of the
\* qualifying collections of the run.
C6_ArrivalOrderIrrelevant ==
    "build" \in calls =>
        \A afc \in [Backends -> UNION {Arrivals(all_finished_collections[db]) :
                                          db \in Backends}] :
            (\A db \in Backends : afc[db] \in Arrivals(all_finished_collections[db]))
            => FileOf(build_versions_data_from_collections(afc)) = FileOf(versions_data)

\* C7: a metadata check that raised is in metadata_errors once it has been
\* handled and has put nothing into the qualifying set; the run does not
\* exit during the metadata phase; after the phase every item has been
\* checked and every item found finished is in the qualifying set, and
\* after the publish phase it has been through a publish sequence.
C7_MetadataFailureTolerated ==
    /\ \A i \in DOMAIN metaTask :
          (metaTask[i].status = "handled" /\ metaTask[i].error # None) =>
              /\ <<metaTask[i].database, metaTask[i].name, metaTask[i].error>>
                     \in Range(metadata_errors)
              /\ metaTask[i].collection = <<>>
    /\ (pc = "exited" /\ "get_collection" \in calls) => "build" \in calls
    /\ "build" \in calls =>
          /\ AllHandled(metaTask)
          /\ \A db \in Backends :
                Len(all_finished_collections[db]) =
                    Cardinality({i \in DOMAIN metaTask :
                                    /\ metaTask[i].database = db
                                    /\ metaTask[i].collection # <<>>})
          /\ \A i \in DOMAIN metaTask :
                metaTask[i].collection # <<>> =>
                    metaTask[i].name \in Range(all_finished_collections[metaTask[i].database])
    /\ PublishPhaseOver =>
          \A i \in DOMAIN metaTask :
              metaTask[i].collection # <<>> =>
                  \E k \in DOMAIN pubTask :
                      /\ pubTask[k].database = metaTask[i].database
                      /\ pubTask[k].name = metaTask[i].name
                      /\ pubTask[k].status = "handled"

\* validation_utils.REQUIRED_REGISTRIES
REQUIRED_REGISTRIES == <<"github_releases", "golang_proxy", "py_pi", "npm", "crates_io">>

\* C8: a saved manifest has a key for every configured database, with an
\* empty object for a database without qualifying collection; the
\* configured databases are the registries validate_versions_json requires.
C8_EveryBackendKey ==
    /\ Range(ALL_DATABASES) = Range(REQUIRED_REGISTRIES)
    /\ Saved =>
          /\ FileKeys(disk) = Backends
          /\ Len(disk.text[2]) = Cardinality(Backends)
          /\ \A db \in Backends :
                all_finished_collections[db] = <<>> => FilePackages(disk, db) = <<>>

\* C8 witness: a manifest was saved in a run where one database had a
\* qualifying collection with a usable name and another had none.
C8_Witness ==
    /\ Saved
    /\ \E db \in Backends : all_finished_collections[db] = <<>>
    /\ \E db \in Backends : FilePackages(disk, db) # <<>>

\* The (prefix, version) pairs a name stands for: it is prefix, "_",
\* version, split at its last underscore, with neither part empty.
PairsOf(name) ==
    {<<SubSeq(name, 1, u - 1), SubSeq(name, u + 1, Len(name))>> :
        u \in {i \in 2..(Len(name) - 1) :
                  name[i] = "_" /\ \A j \in (i + 1)..Len(name) : name[j] # "_"}}

\* C9: a saved manifest holds the entry (backend, prefix, version) exactly
\* when a qualifying collection of that backend is named prefix_version with
\* neither part empty, whatever versions.json held before; no entry is
\* listed under two keys.
C9_ManifestIsQualifyingSet ==
    Saved =>
        \A db \in Backends :
            /\ FileEntries(disk, db) =
                   UNION {PairsOf(name) : name \in Range(all_finished_collections[db])}
            /\ \A k, m \in 1..Len(FilePackages(disk, db)) :
                   FilePackages(disk, db)[k][1] = FilePackages(disk, db)[m][1] => k = m

\* C9 witness: a manifest was saved over the earlier one from a qualifying
\* set that holds a usable name and a name without separator.
C9_Witness ==
    /\ Saved
    /\ \E db \in Backends :
          /\ \E name \in Range(all_finished_collections[db]) : PairsOf(name) # {}
          /\ \E name \in Range(all_finished_collections[db]) : PairsOf(name) = {}
          /\ FileEntries(disk, db) # {}

\* No response of the call so far was 200, 201 or 409.
EveryAttemptFailed ==
    \A k \in 1..Len(responses) :
        ~(responses[k].kind = "http" /\ responses[k].status_code \in {200, 201, 409})

\* C10: a mark_collection_public call whose attempts all fail makes exactly
\* MAX_RETRIES_MARK_PUBLIC requests, sleeps BASE_RETRY_DELAY * 2^k after
\* failed attempt k for k = 0..N-2, does not sleep after the last attempt,
\* and returns a failure with a reason.
C10_ExhaustsRetries ==
    /\ Len(responses) <= MAX_RETRIES_MARK_PUBLIC
    /\ retrier.requests = Len(responses)
    /\ EveryAttemptFailed =>
          /\ retrier.returned <=> Len(responses) = MAX_RETRIES_MARK_PUBLIC
          /\ retrier.sleeps =
                 [k \in 1..(IF retrier.returned
                            THEN MAX_RETRIES_MARK_PUBLIC - 1
                            ELSE Len(responses)) |->
                     BASE_RETRY_DELAY * (2 ^ (k - 1))]
          /\ retrier.returned =>
                (~retrier.success /\ retrier.error # None)

\* C10 witness: the call has returned after failing on every attempt.
C10_Witness ==
    /\ retrier.returned
    /\ EveryAttemptFailed
    /\ Len(responses) = MAX_RETRIES_MARK_PUBLIC

\* The response is an HTTP response with the given status code.
HasStatus(r, code) == r.kind = "http" /\ r.status_code = code

\* C11: a 409 response on any attempt of mark_collection_public ends the
\* call at once with success: it is the last request of the call, no sleep
\* follows it, and a 409 on the first attempt gives success after exactly
\* one request.
C11_ConflictReturnsSuccessAtOnce ==
    \A k \in 1..Len(responses) :
        HasStatus(responses[k], 409) =>
            /\ k = Len(responses)
            /\ retrier.returned
            /\ retrier.success /\ retrier.error = None
            /\ retrier.requests = k
            /\ Len(retrier.sleeps) = k - 1
            /\ ~ENABLED RetrierAttempt

\* C11 witness: the call has got a 409 on an attempt after the first.
C11_Witness ==
    /\ Len(responses) >= 2
    /\ HasStatus(responses[Len(responses)], 409)
    /\ retrier.returned

\* The response is one the call takes for published.
Accepted(r) == HasStatus(r, 200) \/ HasStatus(r, 201) \/ HasStatus(r, 409)

\* C12: mark_collection_public returns success exactly when one of its
\* first MAX_RETRIES_MARK_PUBLIC attempts gets 200, 201 or 409; after any
\* other status or an exception the call goes on to the next attempt, and
\* after such an outcome on the last attempt it returns a failure with a
\* reason.
C12_SuccessIffAcceptedStatus ==
    LET accepted == \E k \in 1..Len(responses) : Accepted(responses[k])
    IN /\ Len(responses) <= MAX_RETRIES_MARK_PUBLIC
       /\ retrier.success <=> accepted
       /\ retrier.success => retrier.returned
       /\ (~accepted /\ Len(responses) < MAX_RETRIES_MARK_PUBLIC) =>
              (~retrier.returned /\ ENABLED RetrierAttempt)
       /\ (~accepted /\ Len(responses) = MAX_RETRIES_MARK_PUBLIC) =>
              /\ retrier.returned
              /\ ~retrier.success
              /\ retrier.error \in {"HTTP error", "exception"}
              /\ (retrier.error = "exception") <=>
                     (responses[MAX_RETRIES_MARK_PUBLIC] = PostRaises)

\* C12 witness: the call has returned a failure after an exception on its
\* last attempt and an error status before it.
C12_Witness ==
    /\ retrier.returned /\ ~retrier.success
    /\ Len(responses) = MAX_RETRIES_MARK_PUBLIC
    /\ responses[MAX_RETRIES_MARK_PUBLIC] = PostRaises
    /\ HasStatus(responses[1], 404)

\* The positions of main() in program order; "exited" can follow any.
ProgramOrder ==
    <<"start", "clients", "counting", "submit_listing", "listing", "filtering",
      "submit_publish", "publishing", "committing">>

\* A worker has taken a task of the pool.
Started(tasks) == \E i \in DOMAIN tasks : tasks[i].status # "queued"

\* Every future of the pool has completed and its result has been handled.
Drained(tasks) == \A i \in DOMAIN tasks : tasks[i].status = "handled"

\* The pools of the phases that come after the position of main() are empty,
\* and a pool is drained before anything of a later phase exists.
PhaseBarriers ==
    /\ pc \in {"start", "clients", "counting", "submit_listing"} =>
          listTask = <<>> /\ metaTask = <<>> /\ pubTask = <<>>
    /\ pc = "listing" => metaTask = <<>> /\ pubTask = <<>> /\ "build" \notin calls
    /\ pc = "filtering" => pubTask = <<>> /\ "build" \notin calls
    /\ (Started(metaTask) \/ "get_collection" \in calls) => Drained(listTask)
    /\ "build" \in calls => Drained(listTask) /\ Drained(metaTask)
    /\ (Started(pubTask) \/ "post" \in calls) =>
          "build" \in calls /\ Drained(metaTask)
    /\ (pc = "committing" \/ "save_versions_json" \in calls) =>
          "build" \in calls /\ Drained(pubTask)

\* main() moves to the next position of the program order, or exits.
PhaseStep ==
    pc' # pc =>
        \/ pc' = "exited"
        \/ \E k \in 1..(Len(ProgramOrder) - 1) :
              pc = ProgramOrder[k] /\ pc' = ProgramOrder[k + 1]

\* C13: a run goes through listing, filtering, building, publishing and
\* committing in this order only, and no task of a phase is started before
\* every task of the phase before it has completed: every listing before
\* the first metadata check, every metadata check before the build, every
\* publish sequence before the commit.
C13_PhasesAreBarriers == []PhaseBarriers /\ [][PhaseStep]_vars

\* C13 witness: main() is about to commit after two listings, two metadata
\* checks and two publish sequences.
C13_Witness ==
    /\ pc = "committing"
    /\ Len(listTask) >= 2 /\ Len(metaTask) >= 2 /\ Len(pubTask) >= 2

\* Every required variable is set and not empty.
ConfigurationPresent == \A v \in REQUIRED_ENV : env[v] # None /\ env[v] # ""

\* Every database has a client, and every listing call has returned its
\* names without an error.
ClientsAndListingsSucceeded ==
    /\ clients = Backends
    /\ Len(listTask) = Len(DATABASES)
    /\ \A i \in DOMAIN listTask : Finished(listTask[i]) /\ listTask[i].error = None

\* The publish phase has been reached and every publish call has returned
\* success.
PublishesSucceeded ==
    /\ "build" \in calls
    /\ \A i \in DOMAIN pubTask : Finished(pubTask[i]) /\ pubTask[i].success

\* save_versions_json has returned without raising.
ManifestSaved ==
    /\ "save_versions_json" \in calls /\ "SyncError" \notin calls
    /\ disk.kind = "document"

\* C14: a run that has ended has exited with status 0 or 1, and with 0
\* exactly when the configuration was present, every client and every
\* listing succeeded, every publish sequence succeeded and the manifest was
\* saved.
C14_ExitZeroIffFullSuccess ==
    pc = "exited" =>
        /\ exitCode \in {0, 1}
        /\ exitCode = 0 <=>
               /\ ConfigurationPresent
               /\ ClientsAndListingsSucceeded
               /\ PublishesSucceeded
               /\ ManifestSaved

\* C15: when one of the five required variables is absent or empty, the run
\* exits with status 1 from its first step: no client is created, no remote
\* call is made, nothing is listed, checked, published or written.
C15_MissingConfigurationAborts ==
    ~ConfigurationPresent =>
        /\ pc \in {"start", "exited"}
        /\ pc = "exited" => exitCode = 1
        /\ clients = {} /\ calls = {}
        /\ listTask = <<>> /\ metaTask = <<>> /\ pubTask = <<>>
        /\ disk = PrevFile

\* C15 witness: the run has exited with status 1 over a variable that is
\* set to the empty string.
C15_Witness ==
    /\ pc = "exited" /\ exitCode = 1
    /\ \E v \in REQUIRED_ENV : env[v] = ""

\* The answer the remote gave to metadata task i.
AnswerTo(i) ==
    responses[CHOOSE k \in 1..Len(responses) : responses[k].task = i].answer

\* The fetch succeeded, the metadata is present and its finished_ingest is
\* the boolean true.
FlagIsBooleanTrue(answer) ==
    /\ ~answer.raises
    /\ ~answer.md.isNone
    /\ "finished_ingest" \in DOMAIN answer.md.dict
    /\ answer.md.dict["finished_ingest"] = "bool:True"

\* C16: a checked collection is in the qualifying set exactly when its
\* metadata fetch succeeded, the metadata is present and finished_ingest is
\* the boolean true; absent or empty metadata, a missing flag and a
\* non-boolean flag leave it out and put nothing into metadata_errors.
C16_QualifyingIffFlagTrue ==
    \A i \in DOMAIN metaTask :
        metaTask[i].status = "handled" =>
            LET t == metaTask[i]
                answer == AnswerTo(i)
            IN /\ FlagIsBooleanTrue(answer) <=>
                      t.name \in Range(all_finished_collections[t.database])
               /\ Len(all_finished_collections[t.database]) <= 1
               /\ ~answer.raises =>
                      \A k \in 1..Len(metadata_errors) :
                          ~(metadata_errors[k][1] = t.database
                            /\ metadata_errors[k][2] = t.name)

\* C16 witness: one collection was taken into the qualifying set and one
\* whose flag is the integer 1 was left out.
C16_Witness ==
    \E i, j \in DOMAIN metaTask :
        /\ metaTask[i].status = "handled" /\ metaTask[j].status = "handled"
        /\ AnswerTo(i) = MetadataAnswer(MdFinished)
        /\ metaTask[i].name \in Range(all_finished_collections[metaTask[i].database])
        /\ AnswerTo(j) = MetadataAnswer(MdFlagOne)
        /\ all_finished_collections[metaTask[j].database] = <<>>

\* The string is MAJOR.MINOR or MAJOR.MINOR.PATCH, every part a numeral.
IsDottedNumeric(v) ==
    /\ Len(SplitDots(v)) \in {2, 3}
    /\ \A i \in 1..Len(SplitDots(v)) : IsNumeral(SplitDots(v)[i])

\* Major, minor and patch of a dotted numeric string, an absent patch as 0.
Component(v, i) ==
    IF i <= Len(SplitDots(v)) THEN Number(SplitDots(v)[i]) ELSE 0

\* v is below w by numeric components.
NumericLess(v, w) ==
    \/ Component(v, 1) < Component(w, 1)
    \/ /\ Component(v, 1) = Component(w, 1)
       /\ \/ Component(v, 2) < Component(w, 2)
          \/ /\ Component(v, 2) = Component(w, 2)
             /\ Component(v, 3) < Component(w, 3)

\* C17: in the manifest the builder returns, the versions of a prefix whose
\* version strings are all of the form MAJOR.MINOR[.PATCH] stand in
\* descending order of their numeric components: no version is listed
\* after one that is numerically below it.
C17_NumericDescendingOrder ==
    "build" \in calls =>
        \A db \in DOMAIN versions_data.versions :
            \A prefix \in DOMAIN versions_data.versions[db] :
                LET vs == versions_data.versions[db][prefix]
                IN (\A i \in 1..Len(vs) : IsDottedNumeric(vs[i])) =>
                       \A i, j \in 1..Len(vs) :
                           i < j => ~NumericLess(vs[i], vs[j])

\* C17 witness: "1.10", "1.9" and "2.0" arrived in an order that is neither
\* the numeric nor the lexical one, and the manifest lists "2.0", "1.10",
\* "1.9".
C17_Witness ==
    /\ "build" \in calls
    /\ all_finished_collections[DATABASES[1]] =
           <<<<"a", "_", "1", ".", "9">>, <<"a", "_", "2", ".", "0">>,
             <<"a", "_", "1", ".", "1", "0">>>>
    /\ versions_data.versions[DATABASES[1]][<<"a">>] =
           <<<<"2", ".", "0">>, <<"1", ".", "1", "0">>, <<"1", ".", "9">>>>

\* The string holds the separator.
HasSeparator(name) == \E i \in 1..Len(name) : name[i] = "_"

\* C18: for a name with at least one underscore parse_collection_name
\* returns a pair (prefix, suffix) with prefix + "_" + suffix = name and no
\* underscore in the suffix; for a name without underscore it returns no
\* pair.
C18_SplitsAtLastSeparator ==
    applied # <<>> =>
        LET name == applied[1].argument
            r == applied[1].result
        IN IF HasSeparator(name)
           THEN /\ r.match
                /\ r.prefix \o <<"_">> \o r.version_str = name
                /\ ~HasSeparator(r.version_str)
           ELSE ~r.match

\* C18 witness: a name with two underscores has been split, its prefix
\* holding the first of them.
C18_Witness ==
    /\ applied # <<>>
    /\ applied[1].result.match
    /\ HasSeparator(applied[1].result.prefix)
    /\ applied[1].result.version_str # <<>>

\* C19: a qualifying collection whose name has no separator gets a warning
\* and no entry in the manifest, which holds only entries of names with a
\* separator; the run is not failed by it: when every listing and every
\* publish sequence has succeeded and the save has not raised, the run has
\* saved the manifest and exited with status 0.
C19_UnparseableNameNotFatal ==
    ("build" \in calls
     /\ \E db \in Backends : \E name \in Range(all_finished_collections[db]) :
            ~HasSeparator(name)) =>
        /\ "logger.warning" \in calls
        /\ \A db \in Backends :
              \A prefix \in DOMAIN versions_data.versions[db] :
                  \A v \in Range(versions_data.versions[db][prefix]) :
                      \E name \in Range(all_finished_collections[db]) :
                          HasSeparator(name) /\ Named(name, prefix, v)
        /\ (/\ pc = "exited"
            /\ \A i \in DOMAIN listTask : listTask[i].error = None
            /\ \A i \in DOMAIN pubTask : Finished(pubTask[i]) /\ pubTask[i].success
            /\ "SyncError" \notin calls) =>
               (exitCode = 0 /\ Saved)
        /\ Saved =>
              \A db \in Backends : \A e \in FileEntries(disk, db) :
                  \E name \in Range(all_finished_collections[db]) :
                      HasSeparator(name) /\ Named(name, e[1], e[2])

\* C19 witness: the run has saved the manifest and exited with status 0
\* with a qualifying collection "b" and a qualifying collection "a_1.0".
C19_Witness ==
    /\ pc = "exited" /\ exitCode = 0 /\ Saved
    /\ \E db \in Backends :
          /\ Name_b \in Range(all_finished_collections[db])
          /\ Name_a_1_0 \in Range(all_finished_collections[db])
          /\ FileEntries(disk, db) = {<<<<"a">>, <<"1", ".", "0">>>>}

\* Once a listing failure is on record, main() handles no further listing
\* result.
NoHandlingAfterListingFailure ==
    list_errors # <<>> =>
        \A i \in DOMAIN listTask :
            listTask'[i].status = "handled" => listTask[i].status = "handled"

\* With a listing failure on record main() can fail without waiting for
\* the listings still in flight.
FailsWithoutWaiting ==
    (pc = "listing" /\ list_errors # <<>>) => ENABLED FinishListing

\* C20: a listing failure short-circuits the listing phase: once the
\* failure of one backend's listing is on record, the run neither waits for
\* nor handles the remaining listing results before it fails.
C20_ListingFailureShortCircuits ==
    []FailsWithoutWaiting /\ [][NoHandlingAfterListingFailure]_vars

\* The publish calls that have returned a failure and have been handled.
HandledFailures ==
    {i \in DOMAIN pubTask : pubTask[i].status = "handled" /\ ~pubTask[i].success}

\* C21: publish errors are accumulated and never end the publish phase
\* early: whatever has failed, a publish call in flight can still return
\* and a returned one can still be handled, main() cannot leave the phase
\* before every publish call has been handled, every handled failure has
\* its reason in public_marking_errors, and a run with a failure exits with
\* status 1 only after the last publish call.
C21_PublishErrorsAccumulated ==
    /\ pc = "publishing" =>
          /\ \A i \in DOMAIN pubTask :
                /\ pubTask[i].status # "queued"
                /\ pubTask[i].status = "running" => ENABLED MarkCollectionPublic(i)
                /\ pubTask[i].status = "done" => ENABLED HandlePublish(i)
          /\ ENABLED FinishPublish => Drained(pubTask)
    /\ Len(public_marking_errors) = Cardinality(HandledFailures)
    /\ \A i \in HandledFailures :
          /\ pubTask[i].error # None
          /\ <<pubTask[i].database, pubTask[i].name, pubTask[i].error>>
                 \in Range(public_marking_errors)
    /\ (pc = "exited" /\ pubTask # <<>>) =>
          /\ Drained(pubTask)
          /\ HandledFailures # {} => exitCode = 1

\* C21 witness: the run has exited with status 1 after two publish calls
\* failed, the reasons of both on record.
C21_Witness ==
    /\ pc = "exited" /\ exitCode = 1
    /\ Cardinality(HandledFailures) = 2
    /\ Len(public_marking_errors) = 2

\* The string is a release N(.N)* and nothing else.
IsPlainRelease(v) ==
    \A i \in 1..Len(SplitDots(v)) : IsNumeral(SplitDots(v)[i])

\* The list stands in lexical descending order.
LexicalDescending(vs) ==
    \A i, j \in 1..Len(vs) : i < j => ~StrLess(vs[i], vs[j])

\* The list stands in descending order of its release numbers.
ReleaseDescending(vs) ==
    \A i, j \in 1..Len(vs) :
        i < j => ~TupleLess(VersionKey(vs[i]).release, VersionKey(vs[j]).release)

\* C22: in the manifest the builder returns, a prefix's version list with
\* a member that is more than a plain release (a string that is no version,
\* or a release with a pre-release or build suffix) stands as a whole in
\* lexical descending order, and whatever the other prefixes hold, a list
\* of plain releases stands in descending order of its release numbers.
C22_LexicalFallbackForWholeList ==
    "build" \in calls =>
        \A db \in DOMAIN versions_data.versions :
            \A prefix \in DOMAIN versions_data.versions[db] :
                LET vs == versions_data.versions[db][prefix]
                IN IF \A i \in 1..Len(vs) : IsPlainRelease(vs[i])
                   THEN ReleaseDescending(vs)
                   ELSE LexicalDescending(vs)

\* The calls of a pool that are in flight.
InFlight(tasks) == NumWith(tasks, "running")

\* C23: at every moment at most MAX_CONCURRENT_CHROMA_READS listing or
\* metadata-check calls and at most MAX_CONCURRENT_DASHBOARD_BACKEND_WRITES
\* publish sequences are in flight; the publish budget is a constant of its
\* own and the larger one, so more publish sequences run at once than the
\* read budget allows.
C23_PoolBudgets ==
    /\ InFlight(listTask) + InFlight(metaTask) <= MAX_CONCURRENT_CHROMA_READS
    /\ InFlight(pubTask) <= MAX_CONCURRENT_DASHBOARD_BACKEND_WRITES
    /\ MAX_CONCURRENT_CHROMA_READS = 10
    /\ MAX_CONCURRENT_DASHBOARD_BACKEND_WRITES = 50
    /\ MAX_CONCURRENT_DASHBOARD_BACKEND_WRITES > MAX_CONCURRENT_CHROMA_READS
    /\ (pc = "filtering" /\ NumWith(metaTask, "queued") > 0) =>
           InFlight(metaTask) = MAX_CONCURRENT_CHROMA_READS
    /\ (pc = "publishing" /\ NumWith(pubTask, "queued") > 0) =>
           InFlight(pubTask) = MAX_CONCURRENT_DASHBOARD_BACKEND_WRITES

\* C23 witness: 50 publish sequences are in flight while another one waits
\* for a worker, after a metadata phase of more than 10 checks.
C23_Witness ==
    /\ pc = "publishing"
    /\ Len(metaTask) > MAX_CONCURRENT_CHROMA_READS
    /\ InFlight(pubTask) = MAX_CONCURRENT_DASHBOARD_BACKEND_WRITES
    /\ NumWith(pubTask, "queued") > 0

\* The shared collectors of main().
Collectors ==
    <<db_to_collections, all_finished_collections, list_errors,
      metadata_errors, public_marking_errors>>

\* The number of qualifying collections on record.
RECURSIVE TotalLen(_, _)
TotalLen(f, S) ==
    IF S = {} THEN 0
    ELSE LET x == CHOOSE y \in S : TRUE
         IN Len(f[x]) + TotalLen(f, S \ {x})

\* The number of entries the collectors hold.
Entries ==
    Cardinality(DOMAIN db_to_collections)
        + TotalLen(all_finished_collections, DOMAIN all_finished_collections)
        + Len(list_errors) + Len(metadata_errors) + Len(public_marking_errors)

HandledCount ==
    NumWith(listTask, "handled") + NumWith(metaTask, "handled")
        + NumWith(pubTask, "handled")

Handled(tasks) == {i \in DOMAIN tasks : tasks[i].status = "handled"}

\* The handled tasks by the branch of the loop body their result takes.
ListedWithError == {i \in Handled(listTask) : Truthy(listTask[i].error)}
ListedWithNames == {i \in Handled(listTask) : ~Truthy(listTask[i].error)}
CheckedWithError == {i \in Handled(metaTask) : Truthy(metaTask[i].error)}
CheckedFinished ==
    {i \in Handled(metaTask) :
        ~Truthy(metaTask[i].error) /\ metaTask[i].collection # <<>>}

\* Every collector holds one entry for each handled task whose result the
\* loop puts there, and nothing else.
NothingLostNothingTwice ==
    /\ Len(list_errors) = Cardinality(ListedWithError)
    /\ DOMAIN db_to_collections =
           {listTask[i].database : i \in ListedWithNames}
    /\ \A i \in ListedWithNames :
           db_to_collections[listTask[i].database] = listTask[i].names
    /\ Len(metadata_errors) = Cardinality(CheckedWithError)
    /\ TotalLen(all_finished_collections, DOMAIN all_finished_collections) =
           Cardinality(CheckedFinished)
    /\ \A i \in CheckedFinished :
           metaTask[i].name \in Range(all_finished_collections[metaTask[i].database])
    /\ Len(public_marking_errors) = Cardinality(HandledFailures)

\* A call returns in a worker thread.
WorkerReturns(tasks, tasksNext) ==
    \E i \in DOMAIN tasks :
        tasks[i].status = "running" /\ tasksNext[i].status = "done"

IsPrefix(s, t) == Len(s) <= Len(t) /\ SubSeq(t, 1, Len(s)) = s

\* A step in which a worker returns leaves the collectors alone; a step
\* that changes them is the coordinating thread handling one completed
\* task (or setting up the empty lists of the metadata phase), it adds at
\* most one entry and it keeps every entry that was there.
SingleWriter ==
    /\ (\/ Len(listTask') = Len(listTask) /\ WorkerReturns(listTask, listTask')
        \/ Len(metaTask') = Len(metaTask) /\ WorkerReturns(metaTask, metaTask')
        \/ Len(pubTask') = Len(pubTask) /\ WorkerReturns(pubTask, pubTask'))
           => Collectors' = Collectors
    /\ Collectors' # Collectors =>
          \/ HandledCount' = HandledCount + 1 /\ Entries' = Entries + 1
          \/ pc = "listing" /\ pc' = "filtering" /\ Entries' = Entries
    /\ HandledCount' \in {HandledCount, HandledCount + 1}
    /\ Entries' \in {Entries, Entries + 1}
    /\ \A db \in DOMAIN db_to_collections :
          db \in DOMAIN db_to_collections'
              /\ db_to_collections'[db] = db_to_collections[db]
    /\ \A db \in DOMAIN all_finished_collections :
          IsPrefix(all_finished_collections[db], all_finished_collections'[db])
    /\ IsPrefix(list_errors, list_errors')
    /\ IsPrefix(metadata_errors, metadata_errors')
    /\ IsPrefix(public_marking_errors, public_marking_errors')

\* C24: under every interleaving the collectors are written by the
\* coordinating thread only, one completed task at a time and at most one
\* entry for each; no worker step writes to them, and every collector holds
\* exactly one entry for each handled task whose result belongs there.
C24_CollectorsSingleWriter == []NothingLostNothingTwice /\ [][SingleWriter]_vars

\* C24 witness: results of all three pools are on record, an error of a
\* metadata check and an error of a publish call next to a listing and a
\* qualifying collection, while another publish call is still in flight.
C24_Witness ==
    /\ pc = "publishing"
    /\ Cardinality(DOMAIN db_to_collections) = Len(DATABASES)
    /\ Len(metadata_errors) = 1
    /\ Len(public_marking_errors) = 1
    /\ NumWith(pubTask, "handled") = 1
    /\ Len(pubTask) = 1

\* The names of the pages in page order.
RECURSIVE Concatenated(_)
Concatenated(answers) ==
    IF answers = <<>> THEN <<>>
    ELSE Head(answers).page \o Concatenated(Tail(answers))

\* The answer ends the call: the empty page, or an exception.
Ending(answer) == answer.raises \/ answer.page = <<>>

\* C25: a list_collections_for_database call has requested the offsets 0,
\* 1000, 2000, ..., one for each answer it got; it has returned exactly when
\* an answer was the empty page or an exception, and that answer is the
\* last one; after the empty page it returns the names of all pages before
\* it in page order and no error; after an exception it returns no names
\* and the message of the exception.
C25_PaginatesUntilEmptyPage ==
    LET f == applied[1]
        n == Len(responses)
    IN /\ f.requested = [k \in 1..n |-> (k - 1) * 1000]
       /\ \A k \in 1..(n - 1) : ~Ending(responses[k])
       /\ f.returned <=> (n > 0 /\ Ending(responses[n]))
       /\ (f.returned /\ ~responses[n].raises) =>
              /\ f.names = Concatenated(responses)
              /\ f.error = None
       /\ (f.returned /\ responses[n].raises) =>
              /\ f.names = <<>>
              /\ f.error = responses[n].msg

\* C25 witness: the call has fetched two pages of names and the third
\* request raised: it returns the error and none of the names.
C25_Witness ==
    /\ applied[1].returned
    /\ Len(responses) = 3
    /\ responses[3].raises
    /\ Concatenated(responses) # <<>>
    /\ applied[1].requested = <<0, 1000, 2000>>
    /\ applied[1].names = <<>>
    /\ applied[1].error = "connection reset"

\* The place of the first occurrence of x in seq.
FirstIndex(seq, x) ==
    CHOOSE i \in 1..Len(seq) : seq[i] = x /\ \A j \in 1..(i - 1) : seq[j] # x

\* C26: the sequence get_possible_restorations returns has no duplicates,
\* holds exactly the generated candidates in the order of their first
\* generation, and ends with the identifier unchanged; for npm an
\* identifier with a leading underscore has a scoped form first
\* ("_types_node" gives "@types/node"), and for golang_proxy
\* "github.com_user_repo_x" gives "github.com/user/repo_x" first.
C26_RestorationsOrderedAndUnique ==
    applied # <<>> =>
        LET a == applied[1]
            r == a.result
        IN /\ \A i, j \in 1..Len(r) : r[i] = r[j] => i = j
           /\ Range(r) = Range(a.possibilities)
           /\ \A i, j \in 1..Len(r) :
                  i < j => FirstIndex(a.possibilities, r[i])
                               < FirstIndex(a.possibilities, r[j])
           /\ r # <<>> /\ r[Len(r)] = a.native_id
           /\ (a.registry = "npm" /\ a.native_id # <<>> /\ a.native_id[1] = "_") =>
                  LET rest == Tail(a.native_id)
                  IN /\ Len(r) >= 2
                     /\ r[1] = <<"@">> \o
                            [k \in 1..Len(rest) |->
                                IF rest[k] = "_" /\ \A j \in 1..(k - 1) : rest[j] # "_"
                                THEN "/" ELSE rest[k]]
           /\ (a.registry = "npm" /\ a.native_id = Id_types_node) =>
                  r[1] = <<"@", "t", "y", "p", "e", "s", "/", "n", "o", "d", "e">>
           /\ (a.registry = "golang_proxy" /\ a.native_id = Id_github_repo_x) =>
                  r[1] = <<"g", "i", "t", "h", "u", "b", ".", "c", "o", "m", "/",
                           "u", "s", "e", "r", "/", "r", "e", "p", "o", "_", "x">>

\* C26 witness: "_types_node" of npm has been restored to "@types/node",
\* then itself.
C26_Witness ==
    /\ applied # <<>>
    /\ applied[1].registry = "npm"
    /\ applied[1].native_id = Id_types_node
    /\ applied[1].result =
           <<<<"@", "t", "y", "p", "e", "s", "/", "n", "o", "d", "e">>,
             Id_types_node>>

\* The name yields no usable (prefix, version) pair: it has no underscore,
\* or nothing before its last underscore, or nothing after it.
YieldsNoPair(name) ==
    \A k \in 1..Len(name) :
        (name[k] = "_" /\ \A j \in (k + 1)..Len(name) : name[j] # "_") =>
            (k = 1 \/ k = Len(name))

\* The manifest has an entry that spells the name.
InManifest(db, name) ==
    \E prefix \in DOMAIN versions_data.versions[db] :
        \E v \in Range(versions_data.versions[db][prefix]) :
            Named(name, prefix, v)

\* The names of the publish pool's tasks for a database, in submission
\* order.
Submitted(db) ==
    LET mine == SelectSeq(pubTask, LAMBDA t : t.database = db)
    IN [k \in 1..Len(mine) |-> mine[k].name]

\* C27: the publish pool is the whole qualifying set: once the pool is
\* submitted its tasks are the qualifying collections of every database, one
\* task each; a qualifying collection whose name yields no usable pair has
\* no entry in the manifest and has a task all the same; and when the
\* publish sequence of such a collection has failed, the run does not save
\* the manifest and can only exit with status 1.
C27_PublishPoolIsQualifyingSet ==
    ("build" \in calls /\ pc # "submit_publish") =>
        /\ \A db \in Backends :
              IF db \in Range(DATABASES)
              THEN Submitted(db) = all_finished_collections[db]
              ELSE Submitted(db) = <<>>
        /\ \A db \in Range(DATABASES) :
              \A name \in Range(all_finished_collections[db]) :
                  YieldsNoPair(name) =>
                      /\ ~InManifest(db, name)
                      /\ \E i \in DOMAIN pubTask :
                            pubTask[i].database = db /\ pubTask[i].name = name
        /\ \A i \in DOMAIN pubTask :
              (/\ YieldsNoPair(pubTask[i].name)
               /\ pubTask[i].status = "handled"
               /\ ~pubTask[i].success) =>
                  /\ "save_versions_json" \notin calls
                  /\ disk = PrevFile
                  /\ pc = "exited" => exitCode = 1

\* C27 witness: "b" and "a_1.0" qualified, the manifest holds "a" only,
\* both were submitted, the publish sequence of "b" failed and that of
\* "a_1.0" succeeded, and the run has exited with status 1.
C27_Witness ==
    /\ pc = "exited" /\ exitCode = 1
    /\ "build" \in calls
    /\ all_finished_collections[DATABASES[1]] = <<Name_b, Name_a_1_0>>
    /\ DOMAIN versions_data.versions[DATABASES[1]] = {<<"a">>}
    /\ Len(pubTask) = 2
    /\ pubTask[1].name = Name_b /\ ~pubTask[1].success
    /\ pubTask[2].name = Name_a_1_0 /\ pubTask[2].success
    /\ metadata_errors = <<>>

\* The run has ended with exit status 0 or 1.
Terminated == pc = "exited" /\ exitCode \in {0, 1}

\* A pool with a submitted task that is not handled yet has a task running,
\* or a returned one for the loop over as_completed to take: no phase waits
\* on tasks that were never started.
NoIdlePool(tasks) ==
    (\E i \in DOMAIN tasks : tasks[i].status # "handled") =>
        \E i \in DOMAIN tasks : tasks[i].status \in {"running", "done"}

PoolsAtWork ==
    /\ pc = "listing" => NoIdlePool(listTask)
    /\ pc = "filtering" => NoIdlePool(metaTask)
    /\ pc = "publishing" => NoIdlePool(pubTask)

\* C28: when every remote call returns, every run of main() eventually
\* ends with exit status 0 or 1, and stays ended; on the way no pool sits
\* on tasks that were never started.
C28_RunTerminates == []PoolsAtWork /\ <>[]Terminated

\* C28 witness: a run that listed every backend, checked and published two
\* collections and wrote the manifest has ended with status 0.
C28_Witness ==
    /\ Terminated
    /\ exitCode = 0
    /\ Len(listTask) = Len(DATABASES)
    /\ Len(metaTask) = 2
    /\ NumWith(pubTask, "handled") = 2
    /\ "save_versions_json" \in calls

\* C29: with max_retries >= 1 the decorated function has been called once
\* for each outcome on record and at most max_retries times, and the
\* wrapper has ended with at least one call: every call before the last one
\* raised; the wrapper has ended exactly when the last call returned or
\* was call number max_retries; a call that returned gives its value as the
\* result; the exception that leaves the wrapper is the one of call number
\* max_retries; and the sleeps taken are base_delay * 2^k for the failed
\* attempts k = 0, 1, ... that were not the last one allowed.
C29_RetriesWithBackoff ==
    LET f == applied[1]
        n == Len(responses)
    IN f.max_retries >= 1 =>
        /\ f.calls = n
        /\ n <= f.max_retries
        /\ \A k \in 1..(n - 1) : ~responses[k].returns
        /\ f.done <=> (n >= 1 /\ (responses[n].returns \/ n = f.max_retries))
        /\ (f.done /\ responses[n].returns) =>
               f.result = responses[n].value /\ f.raised = None
        /\ (f.done /\ ~responses[n].returns) =>
               /\ n = f.max_retries
               /\ f.raised = <<n, responses[n].exc>>
               /\ f.result = None
        /\ f.sleeps = [k \in 1..(IF f.done THEN n - 1 ELSE n) |->
                          f.base_delay * (2 ^ (k - 1))]

\* C29 witness: with max_retries = 3 and base_delay = 2 the function raised
\* three times; the wrapper slept 2 and 4 and let the third exception out.
C29_Witness ==
    /\ applied[1].max_retries = 3
    /\ applied[1].base_delay = 2
    /\ applied[1].done
    /\ applied[1].calls = 3
    /\ applied[1].sleeps = <<2, 4>>
    /\ applied[1].raised = <<3, "connection reset">>

\* C30: once the clients have been created and one of them is missing,
\* the run has exited with status 1 and has listed nothing, checked no
\* metadata, published nothing and written no manifest; and the listing
\* tasks are none at all or one for each database of DATABASES, in order.
ClientFailed == "CloudClient" \in calls /\ clients # Backends

C30_AllClientsOrExit ==
    /\ ClientFailed =>
        /\ pc = "exited"
        /\ exitCode = 1
        /\ calls \cap {"list_collections", "get_collection", "post",
                       "save_versions_json"} = {}
        /\ listTask = <<>>
        /\ metaTask = <<>>
        /\ pubTask = <<>>
        /\ disk = PrevFile
    /\ \/ listTask = <<>>
       \/ [i \in DOMAIN listTask |-> listTask[i].database] = DATABASES

\* C30 witness: one client was created, another was not, and the run has
\* exited with status 1.
C30_Witness ==
    /\ ClientFailed
    /\ clients # {}
    /\ pc = "exited"
    /\ exitCode = 1

\* C31: an input path has failed when nothing is found at it or when the
\* file found is not valid. Once main has printed its summary, the passed
\* count is not negative and passed + failed is the total; once main has
\* returned, it returned true exactly when no input path failed.
PathFailed(file_path) ==
    \/ Repo[file_path] = "absent"
    \/ Repo[file_path] = "malformed"

C31_SummaryCountsAddUp ==
    LET f == applied[1]
    IN /\ \A k \in DOMAIN f.summary :
            /\ f.summary[k].passed >= 0
            /\ f.summary[k].passed + f.summary[k].failed = f.summary[k].total
       /\ f.line = "returned" =>
            (f.result = TRUE <=>
                \A k \in DOMAIN f.file_paths : ~PathFailed(f.file_paths[k]))

====
